---- MODULE Spec2Model ----
(***************************************************************************)
(* A model of the gear optimizer core (src/src/state/optimizer/            *)
(* optimizerCore.ts): the search loop of calculate(), the infusion         *)
(* appliers, the result list of insertCharacter and the attribute and      *)
(* scoring pipeline.                                                       *)
(*                                                                         *)
(* Numbers.  The code computes in IEEE doubles.  The model computes in     *)
(* exact rationals <<n, d>> (d > 0, lowest terms) and keeps one extra      *)
(* value, NaN == <<0, 0>>, for what JavaScript arithmetic makes of a       *)
(* missing (undefined) operand.  Rounding error of doubles is not          *)
(* modelled.                                                               *)
(*                                                                         *)
(* Affix names.  The code compares affix names as strings (gear[1] >       *)
(* gear[3]).  An affix is modelled by the rank of its name in string       *)
(* order, so that > on affixes is > on naturals.                           *)
(***************************************************************************)
EXTENDS Integers, Sequences, FiniteSets, TLC

(***************************************************************************)
(* Rational arithmetic with NaN                                            *)
(***************************************************************************)
NaN == <<0, 0>>

\* the numbers of the model
Q == Int \X Int

Abs(x) == IF x < 0 THEN -x ELSE x

Num(n) == <<n, 1>>

IsNaN(x) == x[2] = 0

\* The arithmetic is written as functions: a function is applied to the
\* values of its arguments, as a JavaScript operator is.
GCD[a \in Nat, b \in Nat] == IF b = 0 THEN a ELSE GCD[b, a % b]

\* n / d in lowest terms, given g = gcd(|n|, |d|) and d # 0
Reduce[n \in Int, d \in Int, g \in Nat] ==
  IF d < 0 THEN <<(-n) \div g, (-d) \div g>> ELSE <<n \div g, d \div g>>

Rat[n \in Int, d \in Int] ==
  IF d = 0 THEN NaN ELSE Reduce[n, d, GCD[Abs(n), Abs(d)]]

\* a + b over the least common denominator, given g = gcd of the denominators
Sum[a \in Q, b \in Q, g \in Nat] ==
  Rat[a[1] * (b[2] \div g) + b[1] * (a[2] \div g), (a[2] \div g) * b[2]]

RAdd[a \in Q, b \in Q] ==
  IF IsNaN(a) \/ IsNaN(b) THEN NaN ELSE Sum[a, b, GCD[a[2], b[2]]]

RNeg[a \in Q] == <<-a[1], a[2]>>

RSub[a \in Q, b \in Q] == RAdd[a, RNeg[b]]

\* a * b, reduced crosswise first: g1 = gcd(|a1|, b2), g2 = gcd(|b1|, a2)
Product[a \in Q, b \in Q, g1 \in Nat, g2 \in Nat] ==
  Rat[(a[1] \div g1) * (b[1] \div g2), (a[2] \div g2) * (b[2] \div g1)]

RMul[a \in Q, b \in Q] ==
  IF IsNaN(a) \/ IsNaN(b) THEN NaN
  ELSE Product[a, b, GCD[Abs(a[1]), b[2]], GCD[Abs(b[1]), a[2]]]

\* a / b; a zero divisor is not met in the model and gives NaN
RDiv[a \in Q, b \in Q] ==
  IF IsNaN(b) \/ b[1] = 0 THEN NaN
  ELSE RMul[a, IF b[1] < 0 THEN <<-b[2], -b[1]>> ELSE <<b[2], b[1]>>]

\* a < b over the least common denominator
Less[a \in Q, b \in Q, g \in Nat] == a[1] * (b[2] \div g) < b[1] * (a[2] \div g)

\* a < b; false when either side is NaN, as in JavaScript
RLt[a \in Q, b \in Q] == ~IsNaN(a) /\ ~IsNaN(b) /\ Less[a, b, GCD[a[2], b[2]]]

RGt[a \in Q, b \in Q] == RLt[b, a]

\* a === b on numbers: NaN equals nothing
REq[a \in Q, b \in Q] == ~IsNaN(a) /\ a = b

\* x || 0 : undefined, NaN and 0 all give 0
OrZero[x \in Q] == IF IsNaN(x) THEN Num(0) ELSE x

\* JavaScript truthiness of a number
Truthy[x \in Q] == ~IsNaN(x) /\ x[1] # 0

\* Math.floor of a number that is not NaN
RFloor[a \in Q] == a[1] \div a[2]

\* Math.round: the nearest integer, halves towards +Infinity
MathRound[a \in Q] ==
  IF IsNaN(a) THEN NaN ELSE Num((2 * a[1] + a[2]) \div (2 * a[2]))

\* number % 1 in JavaScript: the remainder keeps the sign of the dividend
RemOne[a \in Q] ==
  IF IsNaN(a) THEN NaN
  ELSE IF a[1] % a[2] = 0 THEN Num(0)
  ELSE IF a[1] >= 0 THEN <<a[1] % a[2], a[2]>>
  ELSE <<-((-a[1]) % a[2]), a[2]>>

roundEven(number) ==
  IF RemOne[number] = <<1, 2>>
  THEN IF RFloor[number] % 2 = 0 THEN Num(RFloor[number]) ELSE Num(RFloor[number] + 1)
  ELSE MathRound[number]

clamp(input, min, max) ==
  IF RLt[input, min] THEN min
  ELSE IF RGt[input, max] THEN max
  ELSE input

(***************************************************************************)
(* Statement order.  Then(x, F) is F(x) with x computed first: the         *)
(* statement that produces x has run to its end before the statements F    *)
(* stands for begin.                                                       *)
(***************************************************************************)
Then(x, F(_)) == CHOOSE result \in { F(value) : value \in {x} } : TRUE

(***************************************************************************)
(* Attribute maps: JavaScript objects keyed by attribute name              *)
(***************************************************************************)
\* obj[key]; a missing key reads as undefined, which arithmetic turns into NaN
Get(obj, key) == IF key \in DOMAIN obj THEN obj[key] ELSE NaN

\* obj[key] = val: an existing key is overwritten, a new key is added
Put(obj, key, val) ==
  IF key \in DOMAIN obj THEN [obj EXCEPT ![key] = val] ELSE (key :> val) @@ obj

\* obj[key] += val
AddTo(obj, key, val) == Put(obj, key, RAdd[Get(obj, key), val])

(***************************************************************************)
(* Static game tables.  They live in utils/gw2-data and                    *)
(* assets/modifierdata, outside the files at hand; the names are the ones  *)
(* the optimizer reads, the numeric values are small stand-ins.            *)
(***************************************************************************)
\* Attributes.CONDITION
CONDITION == <<"Bleeding", "Burning", "Confusion", "Poison", "Torment">>

\* conditionData[condition] = { factor, baseDamage }
conditionData ==
  [ Bleeding        |-> [factor |-> <<1, 20>>, baseDamage |-> Num(2)],
    Burning         |-> [factor |-> <<1, 10>>, baseDamage |-> Num(10)],
    Confusion       |-> [factor |-> <<1, 20>>, baseDamage |-> Num(1)],
    ConfusionActive |-> [factor |-> <<1, 10>>, baseDamage |-> Num(4)],
    Poison          |-> [factor |-> <<1, 20>>, baseDamage |-> Num(3)],
    Torment         |-> [factor |-> <<1, 10>>, baseDamage |-> Num(2)],
    TormentMoving   |-> [factor |-> <<1, 20>>, baseDamage |-> Num(1)] ]

\* allAttributePointKeys: the attributes whose conversions are rounded
allAttributePointKeys ==
  { "Power", "Precision", "Toughness", "Vitality", "Ferocity",
    "Condition Damage", "Expertise", "Concentration", "Healing Power" }

INFUSION_BONUS == 5

(***************************************************************************)
(* calcStats                                                               *)
(***************************************************************************)
\* const round = noRounding ? (val) => val : roundEven
round(noRounding, val) == IF noRounding THEN val ELSE roundEven(val)

\* maybeRound of calcStats: only point attributes are rounded
maybeRound(attribute, noRounding, val) ==
  IF attribute \in allAttributePointKeys THEN round(noRounding, val) ELSE val

\* a faulty inner loop: sources are read from the attributes being updated
RECURSIVE convertSourcesUpdated(_, _, _, _, _, _)
convertSourcesUpdated(attributes, baseAttributes, attribute, conversion, i, noRounding) ==
  IF i > Len(conversion) THEN attributes
  ELSE Then(AddTo(attributes, attribute,
                  maybeRound(attribute, noRounding,
                             RMul[Get(attributes, conversion[i][1]),
                                  conversion[i][2]])),
            LAMBDA a : convertSourcesUpdated(a, baseAttributes, attribute, conversion,
                                             i + 1, noRounding))

\* the inner loop of the pre-buff conversions: sources are read from
\* baseAttributes
RECURSIVE convertSources(_, _, _, _, _, _)
convertSources(attributes, baseAttributes, attribute, conversion, i, noRounding) ==
  IF i > Len(conversion) THEN attributes
  ELSE Then(AddTo(attributes, attribute,
                  maybeRound(attribute, noRounding,
                             RMul[Get(baseAttributes, conversion[i][1]),
                                  conversion[i][2]])),
            LAMBDA a : convertSources(a, baseAttributes, attribute, conversion, i + 1,
                                      noRounding))

RECURSIVE convertLoop(_, _, _, _, _)
convertLoop(attributes, baseAttributes, convert, i, noRounding) ==
  IF i > Len(convert) THEN attributes
  ELSE Then(convertSources(attributes, baseAttributes, convert[i][1], convert[i][2],
                           1, noRounding),
            LAMBDA a : convertLoop(a, baseAttributes, convert, i + 1, noRounding))

RECURSIVE buffLoop(_, _, _)
buffLoop(attributes, buff, i) ==
  IF i > Len(buff) THEN attributes
  ELSE Then(Put(attributes, buff[i][1],
                RAdd[OrZero[Get(attributes, buff[i][1])], buff[i][2]]),
            LAMBDA a : buffLoop(a, buff, i + 1))

\* one [source, percent] pair of a post-buff conversion: the branches differ
\* in what they take off the critical chance, 'Critical Chance -37' adds a
\* second term read from attributes[source], and any other source adds nothing
convertAfterBuffsTerm(attributes, attribute, source, percent, noRounding) ==
  LET off ==
        IF source = "Critical Chance"          THEN Num(0)
        ELSE IF source = "Critical Chance -7"  THEN <<7, 100>>
        ELSE IF source = "Critical Chance -20" THEN <<1, 5>>
        ELSE IF source = "Critical Chance -27" THEN <<27, 100>>
        ELSE IF source = "Critical Chance -30" THEN <<3, 10>>
        ELSE <<37, 100>>
      known ==
        source \in { "Critical Chance", "Critical Chance -7", "Critical Chance -20",
                     "Critical Chance -27", "Critical Chance -30",
                     "Critical Chance -37" }
      second(a) ==
        IF source = "Critical Chance -37"
        THEN AddTo(a, attribute,
                   maybeRound(attribute, noRounding, RMul[Get(a, source), percent]))
        ELSE a
  IN  IF known
      THEN Then(AddTo(attributes, attribute,
                      maybeRound(attribute, noRounding,
                                 RMul[clamp(RSub[Get(attributes, "Critical Chance"), off],
                                            Num(0), Num(1)),
                                      percent])),
                second)
      ELSE attributes

RECURSIVE convertAfterBuffsSources(_, _, _, _, _)
convertAfterBuffsSources(attributes, attribute, conversion, i, noRounding) ==
  IF i > Len(conversion) THEN attributes
  ELSE Then(convertAfterBuffsTerm(attributes, attribute, conversion[i][1],
                                  conversion[i][2], noRounding),
            LAMBDA a : convertAfterBuffsSources(a, attribute, conversion, i + 1,
                                                noRounding))

RECURSIVE convertAfterBuffsLoop(_, _, _, _)
convertAfterBuffsLoop(attributes, convertAfterBuffs, i, noRounding) ==
  IF i > Len(convertAfterBuffs) THEN attributes
  ELSE Then(convertAfterBuffsSources(attributes, convertAfterBuffs[i][1],
                                     convertAfterBuffs[i][2], 1, noRounding),
            LAMBDA a : convertAfterBuffsLoop(a, convertAfterBuffs, i + 1, noRounding))

\* the four statements of calcStats between the buffs and the post-buff
\* conversions
criticalChance(attributes) ==
  AddTo(attributes, "Critical Chance",
        RDiv[RDiv[RSub[Get(attributes, "Precision"), Num(1000)], Num(21)], Num(100)])

criticalDamage(attributes) ==
  AddTo(attributes, "Critical Damage",
        RDiv[RDiv[Get(attributes, "Ferocity"), Num(15)], Num(100)])

boonDuration(attributes) ==
  AddTo(attributes, "Boon Duration",
        RDiv[RDiv[Get(attributes, "Concentration"), Num(15)], Num(100)])

health(attributes, noRounding) ==
  Put(attributes, "Health",
      round(noRounding,
            RMul[RAdd[Get(attributes, "Health"),
                      RMul[Get(attributes, "Vitality"), Num(10)]],
                 RAdd[Num(1), OrZero[Get(attributes, "Maximum Health")]]]))

\* calcStats from the buffs on; attributes is what the conversions left
calcStatsBuffs(settings, attributes, noRounding) ==
  Then(Then(Then(Then(Then(buffLoop(attributes, settings.modifiers.buff, 1),
                           criticalChance),
                      criticalDamage),
                 boonDuration),
            LAMBDA a : health(a, noRounding)),
       LAMBDA a : convertAfterBuffsLoop(a, settings.modifiers.convertAfterBuffs, 1,
                                        noRounding))

\* a faulty calcStats: attributes computed before are built upon
calcStatsAccumulating(settings, character, noRounding) ==
  [character EXCEPT
     !.attributes =
       Then(convertLoop(IF character.attributes = << >>
                        THEN character.baseAttributes
                        ELSE character.attributes,
                        character.baseAttributes, settings.modifiers.convert, 1,
                        noRounding),
            LAMBDA a : calcStatsBuffs(settings, a, noRounding))]

\* calcStats(character, noRounding): the character with attributes rebuilt
\* from its baseAttributes
calcStats(settings, character, noRounding) ==
  [character EXCEPT
     !.attributes =
       Then(convertLoop(character.baseAttributes, character.baseAttributes,
                        settings.modifiers.convert, 1, noRounding),
            LAMBDA a : calcStatsBuffs(settings, a, noRounding))]

(***************************************************************************)
(* checkInvalid                                                            *)
(***************************************************************************)
\* a bound that is not set
null == << >>

\* a faulty test of the bounds: maxToughness is forgotten
invalidWithoutMaxToughness(settings, attributes) ==
  \/ /\ settings.minBoonDuration # null
     /\ RLt[Get(attributes, "Boon Duration"), RDiv[settings.minBoonDuration, Num(100)]]
  \/ /\ settings.minHealingPower # null
     /\ RLt[Get(attributes, "Healing Power"), settings.minHealingPower]
  \/ /\ settings.minToughness # null
     /\ RLt[Get(attributes, "Toughness"), settings.minToughness]
  \/ /\ settings.minHealth # null
     /\ RLt[Get(attributes, "Health"), settings.minHealth]
  \/ /\ settings.minCritChance # null
     /\ RLt[Get(attributes, "Critical Chance"), RDiv[settings.minCritChance, Num(100)]]

\* the disjunction checkInvalid computes
invalid(settings, attributes) ==
  \/ /\ settings.minBoonDuration # null
     /\ RLt[Get(attributes, "Boon Duration"), RDiv[settings.minBoonDuration, Num(100)]]
  \/ /\ settings.minHealingPower # null
     /\ RLt[Get(attributes, "Healing Power"), settings.minHealingPower]
  \/ /\ settings.minToughness # null
     /\ RLt[Get(attributes, "Toughness"), settings.minToughness]
  \/ /\ settings.maxToughness # null
     /\ RGt[Get(attributes, "Toughness"), settings.maxToughness]
  \/ /\ settings.minHealth # null
     /\ RLt[Get(attributes, "Health"), settings.minHealth]
  \/ /\ settings.minCritChance # null
     /\ RLt[Get(attributes, "Critical Chance"), RDiv[settings.minCritChance, Num(100)]]

\* a faulty checkInvalid: the valid flag is written on every call
checkInvalidWritingValid(settings, character) ==
  [ invalid   |-> invalid(settings, character.attributes),
    character |-> [character EXCEPT !.valid = ~invalid(settings, character.attributes)] ]

\* checkInvalid(character): the returned flag and the character afterwards
checkInvalid(settings, character) ==
  LET inv == invalid(settings, character.attributes)
  IN  [ invalid   |-> inv,
        character |-> IF inv THEN [character EXCEPT !.valid = FALSE] ELSE character ]

(***************************************************************************)
(* Scoring.  Each function returns the attributes it has written and the   *)
(* score it returns in the code.                                           *)
(***************************************************************************)
calcPower(attributes, damageMultiplier) ==
  LET critDmg    == RMul[Get(attributes, "Critical Damage"),
                         Get(damageMultiplier, "Critical Damage")]
      critChance == clamp(Get(attributes, "Critical Chance"), Num(0), Num(1))
      siphonDamage(a) == RMul[OrZero[Get(a, "Siphon Base Coefficient")],
                              Get(damageMultiplier, "Siphon Damage")]
      \* from attributes['Power DPS'] = powerDamage on
      rest(a, powerDamage) ==
        [ attributes |-> Put(Put(a, "Power DPS", powerDamage), "Siphon DPS", powerDamage),
          score      |-> RAdd[powerDamage, siphonDamage(a)] ]
      \* from const powerDamage on
      damage(a) ==
        rest(a, RMul[RDiv[OrZero[Get(a, "Power Coefficient")], Num(2597)],
                     Get(a, "Effective Power")])
  IN  Then(Put(attributes, "Effective Power",
               RMul[RMul[Get(attributes, "Power"),
                         RAdd[Num(1), RMul[critChance, RSub[critDmg, Num(1)]]]],
                    Get(damageMultiplier, "Strike Damage")]),
           damage)

conditionDamageTick(condition, cdmg, mult) ==
  RMul[RAdd[RMul[conditionData[condition].factor, cdmg],
            conditionData[condition].baseDamage],
       mult]

\* the switch of calcCondi: the damage of one tick of the condition
conditionDamage(settings, condition, cdmg, mult) ==
  IF condition = "Torment"
  THEN RAdd[RMul[conditionDamageTick("Torment", cdmg, mult),
                 RSub[Num(1), settings.movementUptime]],
            RMul[conditionDamageTick("TormentMoving", cdmg, mult),
                 settings.movementUptime]]
  ELSE IF condition = "Confusion"
  THEN RAdd[conditionDamageTick("Confusion", cdmg, mult),
            RMul[conditionDamageTick("ConfusionActive", cdmg, mult),
                 settings.attackRate]]
  ELSE conditionDamageTick(condition, cdmg, mult)

\* const duration = 1 + clamp((attributes[`${condition} Duration`] || 0)
\*                            + attributes['Condition Duration'], 0, 1)
conditionDuration(attributes, condition) ==
  RAdd[Num(1),
       clamp(RAdd[OrZero[Get(attributes, condition \o " Duration")],
                  Get(attributes, "Condition Duration")],
             Num(0), Num(1))]

\* x || 1
OrOne(x) == IF Truthy[x] THEN x ELSE Num(1)

\* one pass of calcCondi's loop from const DPS on
conditionDPS(attributes, condition, DPS) ==
  [attributes |-> Put(attributes, condition \o " DPS", DPS), DPS |-> DPS]

\* one pass of calcCondi's loop from attributes[`${condition} Stacks`] = stacks on
conditionStacks(attributes, condition, stacks) ==
  conditionDPS(Put(attributes, condition \o " Stacks", stacks), condition,
               RMul[stacks, OrOne(Get(attributes, condition \o " Damage"))])

\* one pass of calcCondi's loop from const duration on
conditionCoefficient(attributes, condition) ==
  conditionStacks(attributes, condition,
                  RMul[OrZero[Get(attributes, condition \o " Coefficient")],
                       conditionDuration(attributes, condition)])

\* the body of calcCondi's loop for one condition
calcCondiOne(settings, attributes, damageMultiplier, condition) ==
  Then(Put(attributes, condition \o " Damage",
           conditionDamage(settings, condition, Get(attributes, "Condition Damage"),
                           RMul[Get(damageMultiplier, "Condition Damage"),
                                Get(damageMultiplier, condition \o " Damage")])),
       LAMBDA a : conditionCoefficient(a, condition))

RECURSIVE calcCondiLoop(_, _, _, _, _, _)
calcCondiLoop(settings, attributes, damageMultiplier, relevantConditions, i, score) ==
  IF i > Len(relevantConditions)
  THEN [attributes |-> attributes, score |-> score]
  ELSE Then(calcCondiOne(settings, attributes, damageMultiplier, relevantConditions[i]),
            LAMBDA one : calcCondiLoop(settings, one.attributes, damageMultiplier,
                                       relevantConditions, i + 1, RAdd[score, one.DPS]))

calcCondi(settings, attributes, damageMultiplier, relevantConditions) ==
  Then(AddTo(attributes, "Condition Duration",
             RDiv[RDiv[Get(attributes, "Expertise"), Num(15)], Num(100)]),
       LAMBDA a : calcCondiLoop(settings, a, damageMultiplier, relevantConditions, 1,
                                Num(0)))

calcSurvivability(attributes, damageMultiplier) ==
  LET effectiveHealth(a) ==
        Put(a, "Effective Health",
            RMul[RMul[Get(a, "Health"), Get(a, "Armor")],
                 RDiv[Num(1), Get(damageMultiplier, "Damage Taken")]])
      survivability(a) ==
        Put(a, "Survivability", RDiv[Get(a, "Effective Health"), Num(1967)])
  IN  Then(Then(AddTo(attributes, "Armor", Get(attributes, "Toughness")),
                effectiveHealth),
           survivability)

\* bountifulMaintenanceOil stands for
\* hasOwnProperty.call(settings.modifiers, 'bountiful-maintenance-oil')
calcHealing(settings, attributes) ==
  LET bonus(a) ==
        RAdd[RDiv[RMul[OrZero[Get(a, "Healing Power")], <<3, 5>>], Num(10000)],
             RDiv[RMul[OrZero[Get(a, "Concentration")], <<4, 5>>], Num(10000)]]
      oil(a) ==
        IF settings.modifiers.bountifulMaintenanceOil /\ Truthy[bonus(a)]
        THEN Put(a, "Effective Healing",
                 RMul[Get(a, "Effective Healing"), RAdd[Num(1), bonus(a)]])
        ELSE a
      healing(a) == Put(a, "Healing", Get(a, "Effective Healing"))
  IN  Then(Then(Put(attributes, "Effective Healing",
                    RMul[RAdd[RMul[Get(attributes, "Healing Power"), <<3, 10>>],
                              Num(390)],
                         RAdd[Num(1), OrZero[Get(attributes, "Outgoing Healing")]]]),
                oil),
           healing)

(***************************************************************************)
(* updateAttributes and updateAttributesFast                               *)
(***************************************************************************)
\* attributes['Damage'] = powerDamageScore + condiDamageScore + (attributes['Flat DPS'] || 0)
damageScore(attributes, powerDamageScore, condiDamageScore) ==
  Put(attributes, "Damage",
      RAdd[RAdd[powerDamageScore, condiDamageScore],
           OrZero[Get(attributes, "Flat DPS")]])

\* updateAttributes from the Damage assignment on; condi is what calcCondi
\* returned
updateAttributesScores(settings, character, powerDamageScore, condi) ==
  [character EXCEPT
     !.attributes =
       Then(Then(damageScore(condi.attributes, powerDamageScore, condi.score),
                 LAMBDA a : calcSurvivability(a, settings.modifiers.damageMultiplier)),
            LAMBDA a : calcHealing(settings, a))]

\* updateAttributes from calcCondi on; power is what calcPower returned
updateAttributesCondi(settings, character, power) ==
  Then(calcCondi(settings, power.attributes, settings.modifiers.damageMultiplier,
                 CONDITION),
       LAMBDA condi : updateAttributesScores(settings, character, power.score, condi))

\* updateAttributes from calcPower on
updateAttributesPower(settings, character) ==
  Then(calcPower(character.attributes, settings.modifiers.damageMultiplier),
       LAMBDA power : updateAttributesCondi(settings, character, power))

\* the full path: every score family, all conditions, no cache
updateAttributes(settings, character, noRounding) ==
  Then(calcStats(settings, [character EXCEPT !.valid = TRUE], noRounding),
       LAMBDA c : updateAttributesPower(settings, c))

\* a faulty key: Condition Damage is left out
CONDI_CACHE_ID_Expertise(attributes) == Get(attributes, "Expertise")

\* const CONDI_CACHE_ID = attributes['Expertise'] + attributes['Condition Damage'] * 10000
CONDI_CACHE_ID(attributes) ==
  RAdd[Get(attributes, "Expertise"),
       RMul[Get(attributes, "Condition Damage"), Num(10000)]]

\* this.condiResultCache?.get(CONDI_CACHE_ID) || this.calcCondi(...): a truthy
\* cached score is taken and the attributes are left alone, otherwise
\* calcCondi runs
cachedCondi(settings, attributes, condiResultCache) ==
  IF /\ CONDI_CACHE_ID(attributes) \in DOMAIN condiResultCache
     /\ Truthy[condiResultCache[CONDI_CACHE_ID(attributes)]]
  THEN [ attributes |-> attributes,
         score      |-> condiResultCache[CONDI_CACHE_ID(attributes)] ]
  ELSE calcCondi(settings, attributes, settings.modifiers.damageMultiplier,
                 settings.relevantConditions)

\* attributes['Damage'] = ..., with the cache as the branch leaves it
damageTotal(powerDamageScore, condi, condiResultCache) ==
  [ attributes       |-> damageScore(condi.attributes, powerDamageScore, condi.score),
    condiResultCache |-> condiResultCache ]

\* the Damage case from the condition score on; power is what calcPower
\* returned.  CONDI_CACHE_ID is read from the attributes calcPower left,
\* before calcCondi touches them
fastDamagePower(settings, power, condiResultCache) ==
  IF settings.disableCondiResultCache
  THEN Then(calcCondi(settings, power.attributes, settings.modifiers.damageMultiplier,
                      settings.relevantConditions),
            LAMBDA condi : damageTotal(power.score, condi, condiResultCache))
  ELSE IF Len(settings.relevantConditions) > 0
  THEN Then(cachedCondi(settings, power.attributes, condiResultCache),
            LAMBDA condi :
              damageTotal(power.score, condi,
                          Put(condiResultCache, CONDI_CACHE_ID(power.attributes),
                              condi.score)))
  ELSE damageTotal(power.score, [attributes |-> power.attributes, score |-> Num(0)],
                   condiResultCache)

\* the Damage case of updateAttributesFast: the attributes and the cache
\* afterwards
fastDamage(settings, attributes, condiResultCache) ==
  Then(calcPower(attributes, settings.modifiers.damageMultiplier),
       LAMBDA power : fastDamagePower(settings, power, condiResultCache))

\* what updateAttributesFast leaves: the character, the cache and the
\* returned flag
fastResult(character, condiResultCache, result) ==
  [ character        |-> character,
    condiResultCache |-> condiResultCache,
    result           |-> result ]

\* case 'Damage' of the switch; damage is what fastDamage computed
fastDamaged(character, damage) ==
  fastResult([character EXCEPT !.attributes = damage.attributes],
             damage.condiResultCache, TRUE)

\* updateAttributesFast from the validity test on; check is what
\* checkInvalid(character) returns
updateAttributesFastChecked(settings, condiResultCache, character, skipValidation, check) ==
  IF ~skipValidation /\ check.invalid
  THEN fastResult(check.character, condiResultCache, FALSE)
  ELSE IF settings.rankby = "Damage"
  THEN Then(fastDamage(settings, character.attributes, condiResultCache),
            LAMBDA damage : fastDamaged(character, damage))
  ELSE IF settings.rankby = "Survivability"
  THEN fastResult([character EXCEPT
                     !.attributes =
                       calcSurvivability(character.attributes,
                                         settings.modifiers.damageMultiplier)],
                  condiResultCache, TRUE)
  ELSE IF settings.rankby = "Healing"
  THEN fastResult([character EXCEPT
                     !.attributes = calcHealing(settings, character.attributes)],
                  condiResultCache, TRUE)
  ELSE fastResult(character, condiResultCache, TRUE)

\* updateAttributesFast after calcStats
updateAttributesFastStats(settings, condiResultCache, character, skipValidation) ==
  Then(checkInvalid(settings, character),
       LAMBDA check : updateAttributesFastChecked(settings, condiResultCache, character,
                                                  skipValidation, check))

\* the fast path: the character afterwards, the cache afterwards and the
\* returned flag
updateAttributesFast(settings, condiResultCache, character, skipValidation) ==
  Then(calcStats(settings, [character EXCEPT !.valid = TRUE], FALSE),
       LAMBDA c : updateAttributesFastStats(settings, condiResultCache, c,
                                            skipValidation))

(***************************************************************************)
(* Characters and the result list.  The engine object is passed to the     *)
(* operators as the record                                                 *)
(*   this = [list, worstScore, isChanged, uniqueIDCounter, condiResultCache] *)
(* and each operator returns the engine as the method leaves it.           *)
(***************************************************************************)
\* an empty JavaScript object, and the value of attributes before calcStats
EmptyObject == << >>

\* returns a positive value if B is better than A
\* a faulty comparator: no tiebreak
characterLTWithoutTiebreak(a, b, rankby) ==
  RSub[Get(b.attributes, rankby), Get(a.attributes, rankby)]

characterLT(a, b, rankby) ==
  LET diff(key) == RSub[Get(b.attributes, key), Get(a.attributes, key)]
  IN  IF REq[Get(a.attributes, rankby), Get(b.attributes, rankby)]
      THEN IF rankby = "Damage" THEN diff("Survivability")
           ELSE IF rankby \in {"Survivability", "Healing"} THEN diff("Damage")
           ELSE diff(rankby)
      ELSE diff(rankby)

\* clone(character): baseAttributes and infusions are copied, the rest is
\* shared; the model's values are immutable, so both are plain copies
clone(character) ==
  [ gear           |-> character.gear,
    gearStats      |-> character.gearStats,
    attributes     |-> character.attributes,
    valid          |-> character.valid,
    baseAttributes |-> character.baseAttributes,
    infusions      |-> character.infusions,
    id             |-> -1,
    results        |-> EmptyObject ]

addBaseStats(character, stat, amount) ==
  [character EXCEPT
     !.baseAttributes = Put(@, stat, RAdd[OrZero[Get(@, stat)], Num(amount)])]

\* calcResults: results.value; the display strings it also builds (indicators,
\* the +-5 sensitivities, the distribution, the coefficient helper) are
\* computed on clones and stored nowhere else
calcResults(settings, character) ==
  [character EXCEPT !.results = [value |-> Get(character.attributes, settings.rankby)]]

\* a faulty scan: it also passes the predecessors that compare equal
RECURSIVE scanPositionPastEquals(_, _, _, _)
scanPositionPastEquals(list, character, rankby, position) ==
  IF position > 0 /\ ~RLt[characterLT(list[position], character, rankby), Num(0)]
  THEN scanPositionPastEquals(list, character, rankby, position - 1)
  ELSE position

\* a faulty scan: the newcomer always goes in front of the last element
scanPositionBeforeLast(list, character, rankby, position) == position - 1

\* the scan of insertCharacter: from the end, while the predecessor is worse
RECURSIVE scanPosition(_, _, _, _)
scanPosition(list, character, rankby, position) ==
  IF position > 0 /\ RGt[characterLT(list[position], character, rankby), Num(0)]
  THEN scanPosition(list, character, rankby, position - 1)
  ELSE position

\* a faulty splice: the newcomer goes to the head of the list
spliceAtHead(list, position, character) == <<character>> \o list

\* list.splice(position, 0, character), position counted from 0
splice(list, position, character) ==
  SubSeq(list, 1, position) \o <<character>> \o SubSeq(list, position + 1, Len(list))

\* list.length = n for n <= list.length
truncate(list, n) == SubSeq(list, 1, n)

\* the part of insertCharacter after the early return
insertAccepted(this, settings, character) ==
  LET counted == [this EXCEPT !.uniqueIDCounter = @ + 1]
      \* the list after the splice or the push
      inserted(c, position) ==
        IF position <= Len(this.list) - 1
        THEN IF Len(this.list) + 1 > settings.maxResults
             THEN truncate(splice(this.list, position, c), settings.maxResults)
             ELSE splice(this.list, position, c)
        ELSE Append(this.list, c)
      \* if (this.list.length === settings.maxResults) this.worstScore = ...
      updated(newList) ==
        [counted EXCEPT
           !.list = newList,
           !.worstScore =
             IF Len(newList) = settings.maxResults
             THEN Get(newList[Len(newList)].attributes, settings.rankby)
             ELSE @,
           !.isChanged = TRUE]
      \* the else branch, from the test of position on
      placed(c, position) ==
        IF position > settings.maxResults - 1
        THEN counted
        ELSE updated(inserted(c, position))
      \* from the test of the list's length on
      insert(c) ==
        IF Len(this.list) = 0
        THEN [counted EXCEPT !.list = Append(this.list, c), !.isChanged = TRUE]
        ELSE Then(scanPosition(this.list, c, settings.rankby, Len(this.list)),
                  LAMBDA position : placed(c, position))
  IN  Then([calcResults(settings, updateAttributes(settings, character, FALSE))
              EXCEPT !.id = this.uniqueIDCounter],
           insert)

\* a faulty early return: the comparison with worstScore is turned around
insertRejectedBetter(this, settings, character) ==
  \/ ~character.valid
  \/ /\ Truthy[this.worstScore]
     /\ RLt[this.worstScore, Get(character.attributes, settings.rankby)]

\* the early return of insertCharacter
insertRejected(this, settings, character) ==
  \/ ~character.valid
  \/ /\ Truthy[this.worstScore]
     /\ RGt[this.worstScore, Get(character.attributes, settings.rankby)]

\* the engine with one more recorded insertCharacter call
called(this, character) == [this EXCEPT !.inserted = Append(@, character)]

insertCharacter(this, settings, character) ==
  IF insertRejected(this, settings, character)
  THEN called(this, character)
  ELSE insertAccepted(called(this, character), settings, character)

\* the attributes of the argument after insertCharacter(character): the call
\* rewrites them in place (updateAttributes) unless it returns early
insertedAttributes(this, settings, character) ==
  IF insertRejected(this, settings, character)
  THEN character.attributes
  ELSE updateAttributes(settings, character, FALSE).attributes

(***************************************************************************)
(* Infusion appliers                                                       *)
(***************************************************************************)
\* the engine with the cache a call of updateAttributesFast leaves
withCache(this, fast) == [this EXCEPT !.condiResultCache = fast.condiResultCache]

\* insertCharacter after updateAttributesFast; fast is what the latter left
insertFast(this, settings, fast) ==
  insertCharacter(withCache(this, fast), settings, fast.character)

\* updateAttributesFast followed by insertCharacter, on the same character
fastThenInsert(this, settings, character) ==
  Then(updateAttributesFast(settings, this.condiResultCache, character, FALSE),
       LAMBDA fast : insertFast(this, settings, fast))

applyInfusionsNone(this, settings, character) ==
  fastThenInsert(this, settings, character)

\* a faulty applier: the infusions are added and not recorded
primaryInfusedUnrecorded(settings, character) ==
  addBaseStats(character, settings.primaryInfusion,
               settings.primaryMaxInfusions * INFUSION_BONUS)

\* the character applyInfusionsPrimary hands on: the infusions are recorded
\* and added to the base attributes
primaryInfused(settings, character) ==
  addBaseStats([character EXCEPT
                  !.infusions = Put(EmptyObject, settings.primaryInfusion,
                                    settings.primaryMaxInfusions)],
               settings.primaryInfusion,
               settings.primaryMaxInfusions * INFUSION_BONUS)

applyInfusionsPrimary(this, settings, character) ==
  fastThenInsert(this, settings, primaryInfused(settings, character))

\* the character applyInfusionsFew hands on
fewInfused(settings, character) ==
  addBaseStats(
    addBaseStats([character EXCEPT
                    !.infusions = Put(Put(EmptyObject, settings.primaryInfusion,
                                          settings.primaryMaxInfusions),
                                      settings.secondaryInfusion,
                                      settings.secondaryMaxInfusions)],
                 settings.primaryInfusion,
                 settings.primaryMaxInfusions * INFUSION_BONUS),
    settings.secondaryInfusion,
    settings.secondaryMaxInfusions * INFUSION_BONUS)

applyInfusionsFew(this, settings, character) ==
  fastThenInsert(this, settings, fewInfused(settings, character))

\* the clone one iteration of either Secondary loop evaluates, after
\* updateAttributesFast
splitCandidate(this, settings, character, primaryCount, secondaryCount) ==
  LET t1 == addBaseStats(clone(character), settings.primaryInfusion,
                         primaryCount * INFUSION_BONUS)
      t2 == addBaseStats(t1, settings.secondaryInfusion,
                         secondaryCount * INFUSION_BONUS)
  IN  updateAttributesFast(settings, this.condiResultCache, t2, FALSE)

\* the engine with one more recorded split: the counts and the clone after
\* updateAttributesFast
split(this, primaryCount, secondaryCount, fast) ==
  [this EXCEPT !.evaluated = Append(@, [ primaryCount   |-> primaryCount,
                                         secondaryCount |-> secondaryCount,
                                         temp           |-> fast.character ])]

withInfusions(settings, temp, primaryCount, secondaryCount) ==
  [temp EXCEPT
     !.infusions = Put(Put(EmptyObject, settings.primaryInfusion, primaryCount),
                       settings.secondaryInfusion, secondaryCount)]

testInfusionUsefulness(this, settings, character) ==
  LET compare(fast) ==
        [ this   |-> withCache(this, fast),
          result |-> RGt[Get(fast.character.attributes, settings.rankby),
                         this.worstScore] ]
  IN  Then(updateAttributesFast(
             settings, this.condiResultCache,
             addBaseStats(addBaseStats(clone(character), settings.primaryInfusion,
                                       settings.maxInfusions * INFUSION_BONUS),
                          settings.secondaryInfusion,
                          settings.maxInfusions * INFUSION_BONUS),
             TRUE),
           compare)

\* previousResult before the first insertion of a gear
undefined == << >>

\* a faulty test: every valid split is taken
secondaryTakeValid(settings, temp, previousResult) == temp.valid

\* temp.valid && temp.attributes[settings.rankby] !== previousResult
secondaryTake(settings, temp, previousResult) ==
  /\ temp.valid
  /\ \/ previousResult = undefined
     \/ ~REq[Get(temp.attributes, settings.rankby), previousResult]

\* the while loop of applyInfusionsSecondary, and its body after
\* updateAttributesFast (fast is what that call left)
RECURSIVE secondaryLoop(_, _, _, _, _, _)
RECURSIVE secondaryBody(_, _, _, _, _, _, _)
secondaryBody(this, settings, character, previousResult, primaryCount, secondaryCount, fast) ==
  Then(IF secondaryTake(settings, fast.character, previousResult)
       THEN [ this |->
                insertCharacter(withCache(this, fast), settings,
                                withInfusions(settings, fast.character, primaryCount,
                                              secondaryCount)),
              \* previousResult = temp.attributes[settings.rankby], read after
              \* insertCharacter
              previousResult |->
                Get(insertedAttributes(withCache(this, fast), settings, fast.character),
                    settings.rankby) ]
       ELSE [this |-> withCache(this, fast), previousResult |-> previousResult],
       LAMBDA next :
         secondaryLoop(next.this, settings, character, next.previousResult,
                       primaryCount - 1, secondaryCount + 1))

secondaryLoop(this, settings, character, previousResult, primaryCount, secondaryCount) ==
  IF secondaryCount > settings.secondaryMaxInfusions THEN this
  ELSE Then(splitCandidate(this, settings, character, primaryCount, secondaryCount),
            LAMBDA fast : secondaryBody(split(this, primaryCount, secondaryCount, fast),
                                        settings, character, previousResult,
                                        primaryCount, secondaryCount, fast))

\* a faulty guard: every gear passes
infusionGuardOpen(this, settings, character) == [this |-> this, result |-> TRUE]

\* the guard both Secondary appliers start with:
\* !this.worstScore || this.testInfusionUsefulness(character)
infusionGuard(this, settings, character) ==
  IF ~Truthy[this.worstScore]
  THEN [this |-> this, result |-> TRUE]
  ELSE testInfusionUsefulness(this, settings, character)

\* a faulty start of the loop: every infusion primary, whatever
\* primaryMaxInfusions
secondaryGuardedFromAll(guard, settings, character) ==
  IF guard.result
  THEN secondaryLoop(guard.this, settings, character, undefined,
                     settings.maxInfusions, 0)
  ELSE guard.this

\* applyInfusionsSecondary after the guard
secondaryGuarded(guard, settings, character) ==
  IF guard.result
  THEN secondaryLoop(guard.this, settings, character, undefined,
                     settings.primaryMaxInfusions,
                     settings.maxInfusions - settings.primaryMaxInfusions)
  ELSE guard.this

applyInfusionsSecondary(this, settings, character) ==
  Then(infusionGuard(this, settings, character),
       LAMBDA guard : secondaryGuarded(guard, settings, character))

\* the best of the loop so far after one more candidate; best is a sequence
\* of at most one character (empty for null):
\* if (temp.valid && (!best || characterLT(best, temp, settings.rankby) > 0)) best = temp
chosen(settings, best, temp) ==
  IF /\ temp.valid
     /\ \/ Len(best) = 0
        \/ RGt[characterLT(best[1], temp, settings.rankby), Num(0)]
  THEN <<temp>>
  ELSE best

\* the while loop of applyInfusionsSecondaryNoDuplicates, and its body after
\* updateAttributesFast
RECURSIVE noDuplicatesLoop(_, _, _, _, _, _)
RECURSIVE noDuplicatesBody(_, _, _, _, _, _, _)
noDuplicatesBody(this, settings, character, best, primaryCount, secondaryCount, fast) ==
  Then(chosen(settings, best,
              withInfusions(settings, fast.character, primaryCount, secondaryCount)),
       LAMBDA next : noDuplicatesLoop(withCache(this, fast), settings, character, next,
                                      primaryCount - 1, secondaryCount + 1))

noDuplicatesLoop(this, settings, character, best, primaryCount, secondaryCount) ==
  IF secondaryCount > settings.secondaryMaxInfusions
  THEN [this |-> this, best |-> best]
  ELSE Then(splitCandidate(this, settings, character, primaryCount, secondaryCount),
            LAMBDA fast : noDuplicatesBody(split(this, primaryCount, secondaryCount, fast),
                                           settings, character, best,
                                           primaryCount, secondaryCount, fast))

\* if (best) this.insertCharacter(best)
insertBest(loop, settings) ==
  IF Len(loop.best) > 0
  THEN insertCharacter(loop.this, settings, loop.best[1])
  ELSE loop.this

\* applyInfusionsSecondaryNoDuplicates after the guard
noDuplicatesGuarded(guard, settings, character) ==
  IF guard.result
  THEN Then(noDuplicatesLoop(guard.this, settings, character, << >>,
                             settings.primaryMaxInfusions,
                             settings.maxInfusions - settings.primaryMaxInfusions),
            LAMBDA loop : insertBest(loop, settings))
  ELSE guard.this

applyInfusionsSecondaryNoDuplicates(this, settings, character) ==
  Then(infusionGuard(this, settings, character),
       LAMBDA guard : noDuplicatesGuarded(guard, settings, character))

(***************************************************************************)
(* The constructor's switch and testCharacter                              *)
(***************************************************************************)
InfusionModes == {"None", "Primary", "Few", "Secondary", "SecondaryNoDuplicates"}

\* a faulty switch: the default case binds applyInfusionsNone
constructorWithDefault(settings) ==
  IF settings.infusionMode \in InfusionModes
  THEN "applyInfusions" \o settings.infusionMode
  ELSE "applyInfusionsNone"

\* the applier the constructor binds; "throw" stands for the thrown Error
constructor(settings) ==
  IF settings.infusionMode \in InfusionModes
  THEN "applyInfusions" \o settings.infusionMode
  ELSE "throw"

applyInfusions(applyInfusionsFunction, this, settings, character) ==
  CASE applyInfusionsFunction = "applyInfusionsNone" ->
         applyInfusionsNone(this, settings, character)
    [] applyInfusionsFunction = "applyInfusionsPrimary" ->
         applyInfusionsPrimary(this, settings, character)
    [] applyInfusionsFunction = "applyInfusionsFew" ->
         applyInfusionsFew(this, settings, character)
    [] applyInfusionsFunction = "applyInfusionsSecondary" ->
         applyInfusionsSecondary(this, settings, character)
    [] applyInfusionsFunction = "applyInfusionsSecondaryNoDuplicates" ->
         applyInfusionsSecondaryNoDuplicates(this, settings, character)

\* for (const stat in gearStats) baseAttributes[stat] += gearStats[stat]
RECURSIVE applyGear(_, _, _)
applyGear(baseAttributes, gearStats, stats) ==
  IF stats = {} THEN baseAttributes
  ELSE LET stat == CHOOSE x \in stats : TRUE
       IN  Then(AddTo(baseAttributes, stat, gearStats[stat]),
                LAMBDA a : applyGear(a, gearStats, stats \ {stat}))

\* the character testCharacter builds from a complete gear
newCharacter(settings, gear, gearStats) ==
  [ gear           |-> gear,
    gearStats      |-> gearStats,
    attributes     |-> EmptyObject,
    valid          |-> TRUE,
    baseAttributes |-> applyGear(settings.baseAttributes, gearStats, DOMAIN gearStats),
    infusions      |-> EmptyObject,
    id             |-> -1,
    results        |-> EmptyObject ]

testCharacter(applyInfusionsFunction, this, settings, gear, gearStats) ==
  Then(newCharacter(settings, gear, gearStats),
       LAMBDA character : applyInfusions(applyInfusionsFunction, this, settings,
                                         character))

(***************************************************************************)
(* Settings.  The Settings bundle is built outside the files at hand; the  *)
(* search is run on the bundles below.  Slots and affix indices are        *)
(* counted from 0 in the code and from 1 in TLA+ sequences: At reads a     *)
(* sequence with the code's index.                                         *)
(***************************************************************************)
At(seq, i) == seq[i + 1]

\* the affixes, by the rank of their name in string order
Berserker == 1
Cleric    == 2
Soldier   == 3
Viper     == 4

\* the [stat, bonus] pairs of an affix on a slot of the given weight
AffixStats(affix, weight) ==
  CASE affix = Berserker ->
         << <<"Power", Num(20 * weight)>>, <<"Precision", Num(21 * weight)>>,
            <<"Ferocity", Num(15 * weight)>> >>
    [] affix = Cleric ->
         << <<"Healing Power", Num(20 * weight)>>, <<"Power", Num(10 * weight)>>,
            <<"Toughness", Num(10 * weight)>> >>
    [] affix = Soldier ->
         << <<"Power", Num(20 * weight)>>, <<"Toughness", Num(10 * weight)>>,
            <<"Vitality", Num(10 * weight)>> >>
    [] affix = Viper ->
         << <<"Power", Num(10 * weight)>>, <<"Condition Damage", Num(20 * weight)>>,
            <<"Precision", Num(21 * weight)>>, <<"Expertise", Num(15 * weight)>> >>

\* the stat weight of each slot: shoulders, gloves and boots (1, 3, 5) carry
\* the same stats, and so do the two rings (7, 8), the two accessories
\* (9, 10) and the two weapons (12, 13)
SlotWeight ==
  <<2, 1, 3, 1, 2, 1, 3, 2, 2, 2, 2, 1, 2, 2>>

\* settings.affixStatsArray for an affixesArray
AffixStatsArray(affixesArray) ==
  [k \in 1..Len(affixesArray) |->
     [i \in 1..Len(affixesArray[k]) |-> AffixStats(affixesArray[k][i], SlotWeight[k])]]

\* settings.runsAfterThisSlot[k]: the product of the alternatives of the slots
\* from k on (k counted from 0)
RECURSIVE RunsAfter(_, _)
RunsAfter(affixesArray, k) ==
  IF k >= Len(affixesArray) THEN 1
  ELSE Len(At(affixesArray, k)) * RunsAfter(affixesArray, k + 1)

RunsAfterThisSlot(affixesArray) ==
  [k \in 1..(Len(affixesArray) + 1) |-> RunsAfter(affixesArray, k - 1)]

DamageMultiplier ==
  [x \in { "Critical Damage", "Strike Damage", "Siphon Damage", "Condition Damage",
           "Damage Taken", "Bleeding Damage", "Burning Damage", "Confusion Damage",
           "Poison Damage", "Torment Damage" } |-> Num(1)]

BaseAttributes ==
  [x \in { "Power", "Precision", "Toughness", "Vitality", "Ferocity",
           "Condition Damage", "Expertise", "Concentration", "Healing Power",
           "Health", "Armor", "Critical Chance", "Critical Damage", "Boon Duration",
           "Condition Duration", "Power Coefficient", "Burning Coefficient",
           "Torment Coefficient" } |->
     CASE x = "Power"               -> Num(1000)
       [] x = "Precision"           -> Num(1000)
       [] x = "Toughness"           -> Num(100)
       [] x = "Vitality"            -> Num(100)
       [] x = "Health"              -> Num(645)
       [] x = "Armor"               -> Num(100)
       [] x = "Critical Damage"     -> <<3, 2>>
       [] x = "Power Coefficient"   -> Num(2597)
       [] x = "Burning Coefficient" -> Num(2)
       [] x = "Torment Coefficient" -> Num(1)
       [] OTHER                     -> Num(0)]

\* no conversions, no buffs
PlainModifiers ==
  [ convert           |-> << >>,
    buff              |-> << >>,
    convertAfterBuffs |-> << >>,
    damageMultiplier  |-> DamageMultiplier,
    bountifulMaintenanceOil |-> FALSE ]

\* a bundle with one entry of each kind
RichModifiers ==
  [ convert           |-> << <<"Power", << <<"Toughness", <<1, 20>> >>,
                                          <<"Vitality", <<1, 8>> >> >> >>,
                             <<"Healing Power", << <<"Vitality", <<1, 8>> >> >> >> >>,
    buff              |-> << <<"Critical Chance", <<1, 10>> >>,
                             <<"Maximum Health", <<1, 10>> >>,
                             <<"Flat DPS", Num(5)>> >>,
    convertAfterBuffs |-> << <<"Ferocity", << <<"Critical Chance", Num(150)>> >> >>,
                             <<"Power", << <<"Critical Chance -20", Num(50)>> >> >> >>,
    damageMultiplier  |-> [DamageMultiplier EXCEPT !["Strike Damage"] = <<11, 10>>,
                                                   !["Damage Taken"] = <<9, 10>>],
    bountifulMaintenanceOil |-> TRUE ]

\* Toughness fed from Power and from Precision; each term is rounded by
\* itself, so the sum goes up and down as infusions move from one to the
\* other.  Power is fed from Toughness in turn, and Vitality from Power
TwoSourceModifiers ==
  [PlainModifiers EXCEPT
     !.convert = << <<"Toughness", << <<"Power", <<1, 20>> >>,
                                      <<"Precision", <<1, 10>> >> >> >>,
                    <<"Power", << <<"Toughness", <<1, 10>> >> >> >>,
                    <<"Vitality", << <<"Power", <<1, 100>> >> >> >> >>]

\* the fields common to every bundle; affixesArray and the forcing flags are
\* set by Layout
DefaultSettings ==
  [ rankby                  |-> "Damage",
    minBoonDuration         |-> null,
    minHealingPower         |-> null,
    minToughness            |-> null,
    maxToughness            |-> null,
    minHealth               |-> null,
    minCritChance           |-> null,
    maxResults              |-> 2,
    primaryInfusion         |-> "Power",
    secondaryInfusion       |-> "Toughness",
    primaryMaxInfusions     |-> 2,
    secondaryMaxInfusions   |-> 2,
    maxInfusions            |-> 3,
    attackRate              |-> <<1, 2>>,
    movementUptime          |-> <<1, 4>>,
    infusionMode            |-> "None",
    affixes                 |-> <<Berserker, Cleric, Soldier, Viper>>,
    forcedRing              |-> FALSE,
    forcedAcc               |-> FALSE,
    forcedWep               |-> FALSE,
    forcedArmor             |-> FALSE,
    slots                   |-> 0,
    runsAfterThisSlot       |-> <<1>>,
    affixesArray            |-> << >>,
    affixStatsArray         |-> << >>,
    baseAttributes          |-> BaseAttributes,
    modifiers               |-> PlainModifiers,
    disableCondiResultCache |-> FALSE,
    relevantConditions      |-> <<"Burning", "Torment">> ]

\* settings with the slot tables of an affixesArray; slots stands for
\* settings.slots.length
Layout(settings, affixesArray) ==
  [settings EXCEPT
     !.slots             = Len(affixesArray),
     !.affixesArray      = affixesArray,
     !.affixStatsArray   = AffixStatsArray(affixesArray),
     !.runsAfterThisSlot = RunsAfterThisSlot(affixesArray)]

(***************************************************************************)
(* The search: calculate() as a state machine.  One step is one pass of    *)
(* the while loop, cut at the yield.  The stacks are sequences with the    *)
(* top at the end.                                                         *)
(***************************************************************************)
VARIABLES
  settings,                \* this.settings
  applyInfusionsFunction,  \* the applier bound by the constructor
  condiResultCache,        \* this.condiResultCache
  worstScore,              \* this.worstScore
  list,                    \* this.list
  isChanged,               \* this.isChanged
  uniqueIDCounter,         \* this.uniqueIDCounter
  calculationRuns,         \* locals of calculate()
  calculationQueue,
  calculationStatsQueue,
  cycles,
  pc,                      \* where calculate() stands
  progress,                \* the value last yielded or returned
  tested,                  \* history: the arguments of every testCharacter call
  evaluated,               \* history: the infusion splits the last testCharacter evaluated
  inserted,                \* history: the arguments of its insertCharacter calls
  added,                   \* history: the list took a character since the last yield
  popped,                  \* history: the pops of the loop so far
  firstList,               \* the final list of the run before a rerun
  character,               \* the argument of a lone checkInvalid call
  call,                    \* a lone call of a function: its name and arguments
  returned                 \* what the lone call returned

vars ==
  << settings, applyInfusionsFunction, condiResultCache, worstScore, list, isChanged,
     uniqueIDCounter, calculationRuns, calculationQueue, calculationStatsQueue, cycles,
     pc, progress, tested, evaluated, inserted, added, popped, firstList, character,
     call, returned >>

engineVars ==
  << condiResultCache, worstScore, list, isChanged, uniqueIDCounter >>

localVars ==
  << calculationRuns, calculationQueue, calculationStatsQueue, cycles >>

probeVars == << character, call, returned >>

\* what only a testCharacter call changes
testVars == << tested, evaluated, inserted >>

\* the engine object, as the operators above take it
this ==
  [ list             |-> list,
    worstScore       |-> worstScore,
    isChanged        |-> isChanged,
    uniqueIDCounter  |-> uniqueIDCounter,
    condiResultCache |-> condiResultCache,
    evaluated        |-> << >>,
    inserted         |-> << >> ]

\* an optional value: null or one value
None == << >>

Some(x) == <<x>>

\* the loop tests cycles % 1000 only; cycles is kept modulo this period
CyclePeriod == 1000

\* the progress value of a yield and of the final return
snapshot ==
  [ isChanged       |-> isChanged,
    calculationRuns |-> calculationRuns,
    newList         |-> IF isChanged THEN Some(list) ELSE None ]

\* a faulty symmetry test: equal affixes on the slots of a group are pruned too
prunedWithEquals(gear, nextSlot) ==
  \/ /\ ~settings.forcedRing
     /\ nextSlot = 9
     /\ At(gear, nextSlot - 2) >= At(gear, nextSlot - 1)
  \/ /\ ~settings.forcedAcc
     /\ nextSlot = 11
     /\ At(gear, nextSlot - 2) >= At(gear, nextSlot - 1)
  \/ /\ ~settings.forcedWep
     /\ nextSlot = 14
     /\ At(gear, nextSlot - 2) >= At(gear, nextSlot - 1)
  \/ /\ ~settings.forcedArmor
     /\ nextSlot = 6
     /\ (At(gear, 1) >= At(gear, 3) \/ At(gear, 3) >= At(gear, 5))

\* a faulty symmetry test: the forcing flags are not looked at
prunedWhateverFlags(gear, nextSlot) ==
  \/ /\ nextSlot \in {9, 11, 14}
     /\ At(gear, nextSlot - 2) > At(gear, nextSlot - 1)
  \/ /\ nextSlot = 6
     /\ (At(gear, 1) > At(gear, 3) \/ At(gear, 3) > At(gear, 5))

\* the symmetry test of the loop; gear and nextSlot are counted from 0
pruned(gear, nextSlot) ==
  \/ /\ ~settings.forcedRing
     /\ nextSlot = 9
     /\ At(gear, nextSlot - 2) > At(gear, nextSlot - 1)
  \/ /\ ~settings.forcedAcc
     /\ nextSlot = 11
     /\ At(gear, nextSlot - 2) > At(gear, nextSlot - 1)
  \/ /\ ~settings.forcedWep
     /\ nextSlot = 14
     /\ At(gear, nextSlot - 2) > At(gear, nextSlot - 1)
  \/ /\ ~settings.forcedArmor
     /\ nextSlot = 6
     /\ (At(gear, 1) > At(gear, 3) \/ At(gear, 3) > At(gear, 5))

\* for (const [stat, bonus] of stats) gearStats[stat] = (gearStats[stat] || 0) + bonus
RECURSIVE addStats(_, _, _)
addStats(gearStats, stats, i) ==
  IF i > Len(stats) THEN gearStats
  ELSE Then(Put(gearStats, stats[i][1],
                RAdd[OrZero[Get(gearStats, stats[i][1])], stats[i][2]]),
            LAMBDA a : addStats(a, stats, i + 1))

\* gear with the alternative index of slot nextSlot, and its stats
extend(gear, nextSlot, index) ==
  Append(gear, At(At(settings.affixesArray, nextSlot), index))

extendStats(gearStats, nextSlot, index) ==
  addStats(gearStats, At(At(settings.affixStatsArray, nextSlot), index), 1)

\* a faulty expansion: the alternatives are pushed in the order of their index
pushedInOrder(gear, nextSlot) ==
  LET n == Len(At(settings.affixesArray, nextSlot))
  IN  [i \in 1..n |-> extend(gear, nextSlot, i - 1)]

\* the pushes of one expansion: alternatives 1.. in order, alternative 0 last
pushed(gear, nextSlot) ==
  LET n == Len(At(settings.affixesArray, nextSlot))
  IN  [i \in 1..n |-> extend(gear, nextSlot, IF i = n THEN 0 ELSE i)]

\* a faulty expansion: the popped stats take alternative 0 before the clones
\* of the other alternatives are made
pushedStatsAfterRecycling(gearStats, nextSlot) ==
  LET n == Len(At(settings.affixStatsArray, nextSlot))
  IN  [i \in 1..n |->
         IF i = n THEN extendStats(gearStats, nextSlot, 0)
         ELSE extendStats(extendStats(gearStats, nextSlot, 0), nextSlot, i)]

pushedStats(gearStats, nextSlot) ==
  LET n == Len(At(settings.affixStatsArray, nextSlot))
  IN  [i \in 1..n |-> extendStats(gearStats, nextSlot, IF i = n THEN 0 ELSE i)]

\* calculationQueue.pop()
top(queue) == queue[Len(queue)]

pop(queue) == SubSeq(queue, 1, Len(queue) - 1)

\* a faulty count: the pass after a resumption counts once more
tickAfterResume == (cycles + 1) % CyclePeriod

\* cycles++ of a pass that starts at the loop head
tick == IF pc = "loop" THEN (cycles + 1) % CyclePeriod ELSE cycles

(***************************************************************************)
(* The actions                                                             *)
(***************************************************************************)
\* if (settings.affixes.length === 0) return { isChanged: true, percent: 100, newList: [] }
StartEmpty ==
  /\ pc = "constructed"
  /\ Len(settings.affixes) = 0
  /\ progress' = Some([isChanged |-> TRUE, percent |-> 100, newList |-> Some(<< >>)])
  /\ pc' = "done"
  /\ UNCHANGED << settings, applyInfusionsFunction, engineVars, localVars, testVars,
                  added, popped, firstList, probeVars >>

\* the set-up before the loop
Start ==
  /\ pc = "constructed"
  /\ Len(settings.affixes) # 0
  /\ calculationRuns' = 0
  /\ calculationQueue' = << << >> >>
  /\ calculationStatsQueue' = << EmptyObject >>
  /\ cycles' = 0
  /\ isChanged' = TRUE
  /\ added' = FALSE
  /\ popped' = 0
  /\ pc' = "loop"
  /\ UNCHANGED << settings, applyInfusionsFunction, condiResultCache, worstScore, list,
                  uniqueIDCounter, progress, testVars, firstList, probeVars >>

\* cycles % 1000 === 0 && Date.now() - iterationTimer > UPDATE_MS: the clock
\* is the environment's, so the second conjunct may or may not hold
Yield ==
  /\ pc = "loop"
  /\ Len(calculationQueue) > 0
  /\ tick = 0
  /\ \E elapsed \in BOOLEAN : elapsed
  /\ cycles' = tick
  /\ progress' = Some(snapshot)
  /\ pc' = "yielded"
  /\ UNCHANGED << settings, applyInfusionsFunction, engineVars, calculationRuns,
                  calculationQueue, calculationStatsQueue, testVars, added, popped, firstList,
                  probeVars >>

\* a faulty resumption: isChanged is not reset
ResumeWithoutReset ==
  /\ pc = "yielded"
  /\ added' = FALSE
  /\ popped' = popped
  /\ pc' = "resumed"
  /\ UNCHANGED << settings, applyInfusionsFunction, engineVars, localVars, progress,
                  testVars, firstList, probeVars >>

\* the driver calls next(): the generator goes on after the yield
Resume ==
  /\ pc = "yielded"
  /\ isChanged' = FALSE
  /\ added' = FALSE
  /\ popped' = popped
  /\ pc' = "resumed"
  /\ UNCHANGED << settings, applyInfusionsFunction, condiResultCache, worstScore, list,
                  uniqueIDCounter, localVars, progress, testVars, firstList, probeVars >>

\* a faulty pruned pass: the skipped prefix counts as one run
PruneCountingOne ==
  /\ pc \in {"loop", "resumed"}
  /\ Len(calculationQueue) > 0
  /\ pruned(top(calculationQueue), Len(top(calculationQueue)))
  /\ calculationRuns' = calculationRuns + 1
  /\ calculationQueue' = pop(calculationQueue)
  /\ calculationStatsQueue' = pop(calculationStatsQueue)
  /\ cycles' = tick
  /\ popped' = popped + 1
  /\ pc' = "loop"
  /\ UNCHANGED << settings, applyInfusionsFunction, engineVars, progress, testVars,
                  added, firstList, probeVars >>

\* a pass that pops a gear the symmetry test rejects
Prune ==
  /\ pc \in {"loop", "resumed"}
  /\ Len(calculationQueue) > 0
  /\ LET gear     == top(calculationQueue)
         nextSlot == Len(gear)
     IN  /\ pruned(gear, nextSlot)
         /\ calculationRuns' = calculationRuns + At(settings.runsAfterThisSlot, nextSlot)
  /\ calculationQueue' = pop(calculationQueue)
  /\ calculationStatsQueue' = pop(calculationStatsQueue)
  /\ cycles' = tick
  /\ popped' = popped + 1
  /\ pc' = "loop"
  /\ UNCHANGED << settings, applyInfusionsFunction, engineVars, progress, testVars,
                  added, firstList, probeVars >>

\* a pass that pops a complete gear and tests it
Leaf ==
  /\ pc \in {"loop", "resumed"}
  /\ Len(calculationQueue) > 0
  /\ LET gear      == top(calculationQueue)
         gearStats == top(calculationStatsQueue)
         nextSlot  == Len(gear)
     IN  /\ ~pruned(gear, nextSlot)
         /\ nextSlot >= settings.slots
         /\ \E after \in { testCharacter(applyInfusionsFunction, this, settings,
                                          gear, gearStats) } :
              /\ list' = after.list
              /\ worstScore' = after.worstScore
              /\ isChanged' = after.isChanged
              /\ uniqueIDCounter' = after.uniqueIDCounter
              /\ condiResultCache' = after.condiResultCache
              /\ evaluated' = after.evaluated
              /\ inserted' = after.inserted
              /\ added' = (added \/ after.list # list)
         /\ tested' = Append(tested, [gear |-> gear, gearStats |-> gearStats])
  /\ calculationRuns' = calculationRuns + 1
  /\ calculationQueue' = pop(calculationQueue)
  /\ calculationStatsQueue' = pop(calculationStatsQueue)
  /\ cycles' = tick
  /\ popped' = popped + 1
  /\ pc' = "loop"
  /\ UNCHANGED << settings, applyInfusionsFunction, progress, firstList, probeVars >>

\* a faulty pass: the partial gear is left on the stack, nothing is popped
ExpandWithoutExtending ==
  /\ pc \in {"loop", "resumed"}
  /\ Len(calculationQueue) > 0
  /\ LET gear     == top(calculationQueue)
         nextSlot == Len(gear)
     IN  /\ ~pruned(gear, nextSlot)
         /\ nextSlot < settings.slots
         /\ calculationQueue' = calculationQueue
         /\ calculationStatsQueue' = calculationStatsQueue
  /\ cycles' = tick
  /\ popped' = popped
  /\ pc' = "loop"
  /\ UNCHANGED << settings, applyInfusionsFunction, engineVars, calculationRuns,
                  progress, testVars, added, firstList, probeVars >>

\* a pass that pops a partial gear and pushes its extensions
Expand ==
  /\ pc \in {"loop", "resumed"}
  /\ Len(calculationQueue) > 0
  /\ LET gear      == top(calculationQueue)
         gearStats == top(calculationStatsQueue)
         nextSlot  == Len(gear)
     IN  /\ ~pruned(gear, nextSlot)
         /\ nextSlot < settings.slots
         /\ calculationQueue' = pop(calculationQueue) \o pushed(gear, nextSlot)
         /\ calculationStatsQueue' =
              pop(calculationStatsQueue) \o pushedStats(gearStats, nextSlot)
  /\ cycles' = tick
  /\ popped' = popped + 1
  /\ pc' = "loop"
  /\ UNCHANGED << settings, applyInfusionsFunction, engineVars, calculationRuns,
                  progress, testVars, added, firstList, probeVars >>

\* the loop ends on an empty stack: the final return
Finish ==
  /\ pc = "loop"
  /\ Len(calculationQueue) = 0
  /\ progress' = Some(snapshot)
  /\ pc' = "done"
  /\ UNCHANGED << settings, applyInfusionsFunction, engineVars, localVars, testVars,
                  added, popped, firstList, probeVars >>

(***************************************************************************)
(* The bundles the search is run on                                        *)
(***************************************************************************)
\* the largest maxResults of a bundle
MaxMaxResults == 3

\* an affixesArray of n slots: the alternatives of free[k] on slot k, and the
\* single affix Berserker on every other slot
SlotsArray(n, free) ==
  [k \in 1..n |-> IF (k - 1) \in DOMAIN free THEN free[k - 1] ELSE <<Berserker>>]

\* boots, both rings and the amulet are open; every group is forced
FewOpenSlots ==
  SlotsArray(14, (5 :> <<Berserker, Soldier>>) @@ (7 :> <<Berserker, Cleric>>)
                 @@ (8 :> <<Berserker, Cleric>>)
                 @@ (11 :> <<Berserker, Soldier, Viper>>))

\* every slot of a symmetric group is open, with the same two alternatives
GroupSlots == {1, 3, 5, 7, 8, 9, 10, 12, 13}

GroupsOpen(n) ==
  SlotsArray(n, [k \in GroupSlots |-> <<Cleric, Berserker>>])

\* one ring is forced to Cleric, the other is open
OneRingForced ==
  SlotsArray(14, (7 :> <<Cleric>>) @@ (8 :> <<Berserker, Cleric>>)
                 @@ (11 :> <<Berserker, Viper>>))

Forced(s, ring, acc, wep, armor) ==
  [s EXCEPT !.forcedRing = ring, !.forcedAcc = acc, !.forcedWep = wep,
            !.forcedArmor = armor]

NoBounds ==
  [ minBoonDuration |-> null, minHealingPower |-> null, minToughness |-> null,
    maxToughness |-> null, minHealth |-> null, minCritChance |-> null ]

ToughnessWindow ==
  [NoBounds EXCEPT !.minToughness = Num(120), !.maxToughness = Num(140)]

HealerBounds ==
  [NoBounds EXCEPT !.minHealingPower = Num(40), !.minCritChance = Num(22),
                   !.minHealth = Num(1645), !.minBoonDuration = Num(0)]

Bounded(s, b) ==
  [s EXCEPT !.minBoonDuration = b.minBoonDuration,
            !.minHealingPower = b.minHealingPower,
            !.minToughness    = b.minToughness,
            !.maxToughness    = b.maxToughness,
            !.minHealth       = b.minHealth,
            !.minCritChance   = b.minCritChance]

\* the modifiers, ring flag and bounds the bundles with few open slots take
Variants ==
  { [modifiers |-> PlainModifiers, forcedRing |-> TRUE,  bounds |-> NoBounds],
    [modifiers |-> PlainModifiers, forcedRing |-> TRUE,  bounds |-> ToughnessWindow],
    [modifiers |-> RichModifiers,  forcedRing |-> FALSE, bounds |-> HealerBounds],
    [modifiers |-> RichModifiers,  forcedRing |-> FALSE, bounds |-> NoBounds] }

\* the bundles with few open slots: every mode, objective and list size; the
\* mode Few is selected only when both caps together stay within maxInfusions
FewOpenBundles ==
  { Bounded(Forced(Layout([DefaultSettings EXCEPT !.rankby = r, !.infusionMode = m,
                                                  !.maxResults = k,
                                                  !.primaryMaxInfusions =
                                                    IF m = "Few" THEN 1 ELSE @,
                                                  !.modifiers = v.modifiers],
                          FewOpenSlots),
                   v.forcedRing, TRUE, TRUE, TRUE), v.bounds) :
      r \in {"Damage", "Survivability", "Healing"}, m \in InfusionModes,
      k \in 0..MaxMaxResults, v \in Variants }

\* the bundles with every group open: pruned (no flag), unpruned (every
\* flag), and with the rings and the weapons forced only
GroupBundles ==
  { Forced(Layout([DefaultSettings EXCEPT !.maxResults = MaxMaxResults],
                  GroupsOpen(n)), f, f, f, f) :
      n \in {13, 14}, f \in BOOLEAN }
    \cup { Forced(Layout([DefaultSettings EXCEPT !.maxResults = MaxMaxResults],
                         GroupsOpen(14)), TRUE, FALSE, TRUE, FALSE) }

\* primaryMaxInfusions, secondaryMaxInfusions and maxInfusions: two splits,
\* none, and every split from all primary to all secondary
InfusionLimits == { <<2, 2, 3>>, <<1, 1, 3>>, <<3, 3, 3>> }

\* one ring forced, with infusions split in either Secondary mode: Condition
\* Damage and Power ranked by Damage, and Toughness and Power ranked by
\* Healing, where every split of a gear heals the same
SplitBundles ==
  { Forced(Layout([DefaultSettings EXCEPT !.infusionMode = m,
                                          !.rankby = r[1],
                                          !.primaryInfusion = r[2],
                                          !.secondaryInfusion = "Power",
                                          !.primaryMaxInfusions = l[1],
                                          !.secondaryMaxInfusions = l[2],
                                          !.maxInfusions = l[3]],
                  OneRingForced), TRUE, TRUE, TRUE, TRUE) :
      m \in {"Secondary", "SecondaryNoDuplicates"}, l \in InfusionLimits,
      r \in { <<"Damage", "Condition Damage">>, <<"Healing", "Toughness">> } }

\* one ring forced; no affixes at all; a search for healing under a Toughness
\* cap that every other split of Power and Precision infusions exceeds; and a
\* search for healing long enough to pass the yield twice, whose best gears
\* come first
OtherBundles ==
  { Forced(Layout(DefaultSettings, OneRingForced), TRUE, TRUE, TRUE, TRUE),
    Layout([DefaultSettings EXCEPT !.affixes = << >>], << >>),
    Forced(Layout([DefaultSettings EXCEPT !.infusionMode = "Secondary",
                                          !.rankby = "Healing",
                                          !.primaryInfusion = "Power",
                                          !.secondaryInfusion = "Precision",
                                          !.primaryMaxInfusions = 3,
                                          !.secondaryMaxInfusions = 3,
                                          !.maxInfusions = 3,
                                          !.modifiers = TwoSourceModifiers,
                                          !.maxToughness = Num(346)],
                  OneRingForced), TRUE, TRUE, TRUE, TRUE),
    Forced(Layout([DefaultSettings EXCEPT !.rankby = "Healing"],
                  SlotsArray(14, [k \in GroupSlots \cup {11} |-> <<Cleric, Berserker>>])),
           TRUE, TRUE, TRUE, TRUE) }

(***************************************************************************)
(* The specification                                                       *)
(***************************************************************************)
\* the field initialisers of the class, and nothing yet of calculate()
Fields ==
  /\ condiResultCache = << >>
  /\ worstScore = Num(0)
  /\ list = << >>
  /\ isChanged = TRUE
  /\ uniqueIDCounter = 0
  /\ calculationRuns = 0
  /\ calculationQueue = << >>
  /\ calculationStatsQueue = << >>
  /\ cycles = 0
  /\ progress = None
  /\ tested = << >>
  /\ evaluated = << >>
  /\ inserted = << >>
  /\ added = FALSE
  /\ popped = 0
  /\ firstList = None

\* the engine right after new OptimizerCore(settings), calculate() not begun
Engine(bundle) ==
  /\ settings = bundle
  /\ applyInfusionsFunction = constructor(bundle)
  /\ pc = "constructed"
  /\ Fields

\* the same, and no lone checkInvalid call to make
Constructed(bundle) ==
  /\ Engine(bundle)
  /\ character = None
  /\ call = None
  /\ returned = None

Init ==
  \/ \E bundle \in FewOpenBundles : Constructed(bundle)
  \/ \E bundle \in GroupBundles : Constructed(bundle)
  \/ \E bundle \in SplitBundles : Constructed(bundle)
  \/ \E bundle \in OtherBundles : Constructed(bundle)

Next ==
  \/ StartEmpty
  \/ Start
  \/ Yield
  \/ Resume
  \/ Prune
  \/ Leaf
  \/ Expand
  \/ Finish

Spec == Init /\ [][Next]_vars

(***************************************************************************)
(* Termination: the search under a driver that always resumes the          *)
(* generator and a scheduler that lets the loop take its next pass         *)
(***************************************************************************)
FairSpec == Init /\ [][Next]_vars /\ WF_vars(Next)

(***************************************************************************)
(* A lone call of checkInvalid on a character whose attributes sit on,     *)
(* just inside or just outside the bounds                                  *)
(***************************************************************************)
\* every choice of set and unset bounds
ProbeBounds ==
  [ minBoonDuration : {null, Num(20)},
    minHealingPower : {null, Num(40)},
    minToughness    : {null, Num(120)},
    maxToughness    : {null, Num(140)},
    minHealth       : {null, Num(1645)},
    minCritChance   : {null, Num(22)} ]

\* attributes with every value on its bound
OnBounds ==
  [x \in { "Boon Duration", "Healing Power", "Toughness", "Health",
           "Critical Chance" } |->
     CASE x = "Boon Duration"   -> <<1, 5>>
       [] x = "Healing Power"   -> Num(40)
       [] x = "Toughness"       -> Num(120)
       [] x = "Health"          -> Num(1645)
       [] x = "Critical Chance" -> <<11, 50>>]

\* one value moved off its bound, to either side
ProbeAttributes ==
  {OnBounds}
    \cup { [OnBounds EXCEPT !["Boon Duration"] = v] : v \in { <<19, 100>>, <<21, 100>> } }
    \cup { [OnBounds EXCEPT !["Healing Power"] = v] : v \in { Num(39), Num(41) } }
    \cup { [OnBounds EXCEPT !["Toughness"] = v] :
             v \in { Num(119), Num(130), Num(140), Num(141) } }
    \cup { [OnBounds EXCEPT !["Health"] = v] : v \in { Num(1644), Num(1646) } }
    \cup { [OnBounds EXCEPT !["Critical Chance"] = v] : v \in { <<21, 100>>, <<23, 100>> } }

\* a character with the given attributes and valid flag
ProbeCharacter(attributes, valid) ==
  [newCharacter(DefaultSettings, << >>, EmptyObject) EXCEPT
     !.attributes = attributes, !.valid = valid]

InvalidInit ==
  \E bounds \in ProbeBounds, attributes \in ProbeAttributes, valid \in BOOLEAN :
    /\ Engine(Bounded(Layout(DefaultSettings, << >>), bounds))
    /\ character = Some(ProbeCharacter(attributes, valid))
    /\ call = None
    /\ returned = None

\* const invalid = this.checkInvalid(character)
CheckInvalid ==
  /\ pc = "constructed"
  /\ character # None
  /\ returned = None
  /\ \E result \in { checkInvalid(settings, character[1]) } :
       /\ returned' = Some(result.invalid)
       /\ character' = Some(result.character)
  /\ pc' = "checked"
  /\ UNCHANGED << settings, applyInfusionsFunction, engineVars, localVars, progress,
                  testVars, added, popped, firstList, call >>

InvalidNext == CheckInvalid

InvalidSpec == InvalidInit /\ [][InvalidNext]_vars

(***************************************************************************)
(* Lone calls: new OptimizerCore(settings) on any infusionMode, roundEven  *)
(* on the integers and half-integers of a range, characterLT on the pairs  *)
(* of three characters, calcStats under one post-buff conversion           *)
(***************************************************************************)
\* infusionMode values: the five modes and some others
Modes == InfusionModes \cup {"", "none", "Tertiary", "secondary"}

\* the largest |2x| of an argument x of roundEven
MaxHalf == 40

Halves == { Rat[k, 2] : k \in (-MaxHalf)..MaxHalf }

\* characters as updateAttributes leaves them, by their three scores
Scored ==
  { [ProbeCharacter(EmptyObject, TRUE) EXCEPT
       !.attributes = [x \in {"Damage", "Survivability", "Healing"} |->
                         CASE x = "Damage"        -> d
                           [] x = "Survivability" -> v
                           [] x = "Healing"       -> h]] :
      d \in {Num(1), <<3, 2>>, Num(2)}, v \in {Num(1), <<3, 2>>, Num(2)},
      h \in {Num(1), Num(2)} }

\* the sources of a post-buff conversion: the six the code names and two
\* plain attributes
AfterBuffsSources ==
  { "Critical Chance", "Critical Chance -7", "Critical Chance -20",
    "Critical Chance -27", "Critical Chance -30", "Critical Chance -37",
    "Precision", "Power" }

\* modifiers with the buffs of RichModifiers and one post-buff conversion
AfterBuffsModifiers(attribute, source, percent) ==
  [RichModifiers EXCEPT
     !.convertAfterBuffs = << <<attribute, << <<source, percent>> >> >> >>]

\* base Precision values that put the critical chance below 0, on and
\* between the amounts the sources take off, and above 1
Precisions == { Num(1000 + 21 * k) : k \in {-20, -5, 0, 10, 17, 20, 27, 50, 95} }

\* a character as testCharacter builds it, with the given base Precision
WithPrecision(precision) ==
  [newCharacter(DefaultSettings, << >>, EmptyObject) EXCEPT
     !.baseAttributes = Put(@, "Precision", precision)]

CallInit ==
  \/ \E source \in AfterBuffsSources, attribute \in {"Ferocity", "Critical Damage"},
        percent \in {Num(150), <<1, 10>>}, precision \in Precisions :
       /\ Engine(Layout([DefaultSettings EXCEPT
                           !.modifiers = AfterBuffsModifiers(attribute, source, percent)],
                        << >>))
       /\ character = None
       /\ call = Some([character |-> WithPrecision(precision)])
       /\ returned = None
  \/ \E mode \in Modes :
       /\ settings = Layout([DefaultSettings EXCEPT !.infusionMode = mode], FewOpenSlots)
       /\ applyInfusionsFunction = None
       /\ pc = "new"
       /\ Fields
       /\ character = None
       /\ call = None
       /\ returned = None
  \/ \E number \in Halves :
       /\ Engine(Layout(DefaultSettings, << >>))
       /\ character = None
       /\ call = Some([number |-> number])
       /\ returned = None
  \/ \E a \in Scored, b \in Scored, c \in Scored,
        rankby \in {"Damage", "Survivability", "Healing"} :
       /\ Engine(Layout([DefaultSettings EXCEPT !.rankby = rankby], << >>))
       /\ character = None
       /\ call = Some([a |-> a, b |-> b, c |-> c])
       /\ returned = None

\* new OptimizerCore(settings): the applier is bound, or the Error is thrown
\* and there is no engine
New ==
  /\ pc = "new"
  /\ IF constructor(settings) = "throw"
     THEN pc' = "thrown" /\ UNCHANGED applyInfusionsFunction
     ELSE pc' = "constructed" /\ applyInfusionsFunction' = constructor(settings)
  /\ UNCHANGED << settings, engineVars, localVars, progress, testVars, added, popped,
                  firstList, probeVars >>

\* const result = roundEven(number)
RoundEven ==
  /\ pc = "constructed"
  /\ call # None
  /\ DOMAIN call[1] = {"number"}
  /\ returned' = Some(roundEven(call[1].number))
  /\ pc' = "returned"
  /\ UNCHANGED << settings, applyInfusionsFunction, engineVars, localVars, progress,
                  testVars, added, popped, firstList, character, call >>

\* characterLT on each ordered pair of a, b and c
CharacterLT ==
  /\ pc = "constructed"
  /\ call # None
  /\ DOMAIN call[1] = {"a", "b", "c"}
  /\ returned' =
       Some([p \in {"a", "b", "c"} \X {"a", "b", "c"} |->
               characterLT(call[1][p[1]], call[1][p[2]], settings.rankby)])
  /\ pc' = "returned"
  /\ UNCHANGED << settings, applyInfusionsFunction, engineVars, localVars, progress,
                  testVars, added, popped, firstList, character, call >>

\* this.calcStats(character)
CalcStats ==
  /\ pc = "constructed"
  /\ call # None
  /\ DOMAIN call[1] = {"character"}
  /\ returned' = Some(calcStats(settings, call[1].character, FALSE))
  /\ pc' = "returned"
  /\ UNCHANGED << settings, applyInfusionsFunction, engineVars, localVars, progress,
                  testVars, added, popped, firstList, character, call >>

CallNext ==
  \/ New
  \/ RoundEven
  \/ CharacterLT
  \/ CalcStats

CallSpec == CallInit /\ [][CallNext]_vars

(***************************************************************************)
(* The same search run again on the same bundle with the alternatives of   *)
(* one slot in another order                                               *)
(***************************************************************************)
\* seq in the order p
Permuted(seq, p) == [i \in 1..Len(seq) |-> seq[p[i]]]

\* settings with the alternatives of slot k (counted from 1) in the order p,
\* in affixesArray and in affixStatsArray alike
PermutedSettings(bundle, k, p) ==
  [bundle EXCEPT !.affixesArray[k]    = Permuted(@, p),
                 !.affixStatsArray[k] = Permuted(@, p)]

\* a completed search is followed by a new OptimizerCore on the permuted
\* settings; the final list of the first search is kept for comparison
Restart ==
  /\ pc = "done"
  /\ firstList = None
  /\ \E k \in 1..Len(settings.affixesArray) :
       \E p \in Permutations(1..Len(settings.affixesArray[k])) :
         /\ Permuted(settings.affixesArray[k], p) # settings.affixesArray[k]
         /\ settings' = PermutedSettings(settings, k, p)
  /\ firstList' = Some(list)
  /\ condiResultCache' = << >>
  /\ worstScore' = Num(0)
  /\ list' = << >>
  /\ isChanged' = TRUE
  /\ uniqueIDCounter' = 0
  /\ calculationRuns' = 0
  /\ calculationQueue' = << >>
  /\ calculationStatsQueue' = << >>
  /\ cycles' = 0
  /\ pc' = "constructed"
  /\ progress' = None
  /\ tested' = << >>
  /\ evaluated' = << >>
  /\ inserted' = << >>
  /\ added' = FALSE
  /\ popped' = 0
  /\ UNCHANGED << applyInfusionsFunction, probeVars >>

\* the bundles run twice: every mode, objective and list size, with ties
\* (both rings forced open) and without
PermBundles ==
  { b \in FewOpenBundles :
      \/ b.modifiers = PlainModifiers /\ b.minToughness = null
      \/ b.modifiers = RichModifiers /\ b.minHealingPower # null }

PermInit ==
  \/ \E bundle \in PermBundles : Constructed(bundle)
  \/ \E bundle \in GroupBundles : Constructed(bundle)
  \/ \E bundle \in SplitBundles : Constructed(bundle)
  \/ \E bundle \in OtherBundles : Constructed(bundle)

PermNext ==
  \/ Next
  \/ Restart

PermSpec == PermInit /\ [][PermNext]_vars

(***************************************************************************)
(* Properties of the result list                                           *)
(***************************************************************************)
\* characterLT(a, b, rankby) <= 0: b is not better than a
NotBetter(a, b) ==
  LET d == characterLT(a, b, settings.rankby)
  IN  ~IsNaN(d) /\ ~RGt[d, Num(0)]

Sorted(l) == \A i \in 1..(Len(l) - 1) : NotBetter(l[i], l[i + 1])

\* C1: in every reachable state the result list is sorted descending by the
\* rank comparator (characterLT(list[i], list[i+1], rankby) <= 0 for every
\* adjacent pair), and so is every newList a yield or the final return carries
C1_Sorted ==
  /\ Sorted(list)
  /\ (progress # None /\ progress[1].newList # None) => Sorted(progress[1].newList[1])

\* C1 is met: a completed search whose list holds three characters, not all of
\* one rank, out of more candidates than it holds
C1_Witness ==
  /\ pc = "done"
  /\ Len(list) >= 3
  /\ Len(tested) > Len(list)
  /\ ~NotBetter(list[3], list[1])
  /\ progress[1].newList = Some(list)

\* C2: for every non-negative maxResults the list never holds more than
\* maxResults characters, the first insertion into the empty list included
C2_LengthBound == Len(list) <= settings.maxResults

\* the rankby score of a character
Score(c) == Get(c.attributes, settings.rankby)

\* C3: if the list holds maxResults characters (maxResults >= 1) then
\* worstScore is the rankby score of its last element, and while the list is
\* shorter worstScore is 0
C3_WorstScore ==
  /\ (settings.maxResults >= 1 /\ Len(list) = settings.maxResults)
       => worstScore = Score(list[Len(list)])
  /\ Len(list) < settings.maxResults => worstScore = Num(0)

\* the single candidate of a complete gear in the modes None, Primary and Few
Candidate(t) ==
  CASE settings.infusionMode = "None" ->
         newCharacter(settings, t.gear, t.gearStats)
    [] settings.infusionMode = "Primary" ->
         primaryInfused(settings, newCharacter(settings, t.gear, t.gearStats))
    [] settings.infusionMode = "Few" ->
         fewInfused(settings, newCharacter(settings, t.gear, t.gearStats))

\* the indices of the tested gears whose candidate passes the bounds
ValidTested ==
  { i \in 1..Len(tested) :
      ~invalid(settings, calcStats(settings, Candidate(tested[i]), FALSE).attributes) }

Min(a, b) == IF a < b THEN a ELSE b

\* the list is the top of the valid candidates
TopK ==
  /\ Len(list) = Min(settings.maxResults, Cardinality(ValidTested))
  /\ \A i \in ValidTested :
       (\A j \in 1..Len(list) : list[j].gear # tested[i].gear)
         => LET c == updateAttributes(settings, Candidate(tested[i]), FALSE)
            IN  \A j \in 1..Len(list) : NotBetter(list[j], c)

\* C4: in the modes None, Primary and Few a completed search leaves the top
\* K: the list holds min(maxResults, number of valid candidates) characters
\* and no valid candidate outside it is strictly better than one inside
C4_TopK ==
  (/\ pc = "done"
   /\ Len(settings.affixes) # 0
   /\ settings.infusionMode \in {"None", "Primary", "Few"})
    => TopK

(***************************************************************************)
(* Properties of the search loop                                           *)
(***************************************************************************)
\* C5: with finitely many slots and alternatives and a driver that always
\* resumes, calculate() eventually stands at its final return with both
\* stacks empty and the final progress value handed out
C5_Terminates ==
  <>(/\ pc = "done"
     /\ calculationQueue = << >>
     /\ calculationStatsQueue = << >>
     /\ progress # None)

\* C5 is met: a search of more than a thousand passes, which has yielded and
\* been resumed, stands at its final return
C5_Witness ==
  /\ pc = "done"
  /\ Len(tested) > 500
  /\ progress # None
  /\ calculationQueue = << >>

\* the symmetric groups, slots counted from 0
SymmetricGroups == { {1, 3, 5}, {7, 8}, {9, 10}, {12, 13} }

\* the slots of a group a gear of the bundle has
Present(group) == { k \in group : k < settings.slots }

\* every complete gear assignment: one alternative per slot
RECURSIVE Assignments(_, _)
Assignments(affixesArray, n) ==
  IF n = 0 THEN { << >> }
  ELSE { Append(gear, affixesArray[n][i]) :
           gear \in Assignments(affixesArray, n - 1), i \in 1..Len(affixesArray[n]) }

\* g and h differ only by permuting affixes within the symmetric groups
SameUpToGroups(g, h) ==
  /\ \A k \in 0..(settings.slots - 1) :
       (\A group \in SymmetricGroups : k \notin group) => At(g, k) = At(h, k)
  /\ \A group \in SymmetricGroups :
       \A affix \in { At(g, k) : k \in Present(group) } \cup { At(h, k) : k \in Present(group) } :
         Cardinality({ k \in Present(group) : At(g, k) = affix })
           = Cardinality({ k \in Present(group) : At(h, k) = affix })

\* the slots of each symmetric group offer the same alternatives
SameAlternatives ==
  \A group \in SymmetricGroups :
    \A k, l \in Present(group) :
      { At(settings.affixesArray, k)[i] : i \in 1..Len(At(settings.affixesArray, k)) }
        = { At(settings.affixesArray, l)[i] : i \in 1..Len(At(settings.affixesArray, l)) }

NoFlag ==
  ~settings.forcedRing /\ ~settings.forcedAcc /\ ~settings.forcedWep /\ ~settings.forcedArmor

EveryFlag ==
  settings.forcedRing /\ settings.forcedAcc /\ settings.forcedWep /\ settings.forcedArmor

TestedGears == { tested[i].gear : i \in 1..Len(tested) }

\* C6: symmetry pruning preserves completeness.  The unpruned search (every
\* flag set) tests every complete assignment; with no flag set and the same
\* alternatives on the slots of each group, every complete assignment has a
\* tested one that differs from it only by permuting affixes within the groups
C6_PruningComplete ==
  (pc = "done" /\ Len(settings.affixes) # 0)
    => /\ EveryFlag => TestedGears = Assignments(settings.affixesArray, settings.slots)
       /\ (NoFlag /\ SameAlternatives)
            => \A g \in Assignments(settings.affixesArray, settings.slots) :
                 \E h \in TestedGears : SameUpToGroups(g, h)

\* C6 is met: a completed search with no flag set that has pruned, in every
\* group, assignments the unpruned search tests
C6_Witness ==
  /\ pc = "done"
  /\ NoFlag
  /\ SameAlternatives
  /\ settings.slots = 14
  /\ Len(tested) > 0
  /\ 4 * Len(tested) < Cardinality(Assignments(settings.affixesArray, settings.slots))

(***************************************************************************)
(* Properties of validity                                                  *)
(***************************************************************************)
\* the bounds, stated on their own: every set bound is kept
WithinBounds(attributes) ==
  /\ settings.minBoonDuration # null
       => ~RLt[Get(attributes, "Boon Duration"), RDiv[settings.minBoonDuration, Num(100)]]
  /\ settings.minHealingPower # null
       => ~RLt[Get(attributes, "Healing Power"), settings.minHealingPower]
  /\ settings.minToughness # null
       => ~RLt[Get(attributes, "Toughness"), settings.minToughness]
  /\ settings.maxToughness # null
       => ~RGt[Get(attributes, "Toughness"), settings.maxToughness]
  /\ settings.minHealth # null
       => ~RLt[Get(attributes, "Health"), settings.minHealth]
  /\ settings.minCritChance # null
       => ~RLt[Get(attributes, "Critical Chance"), RDiv[settings.minCritChance, Num(100)]]

\* the number of infusions of a stat a character records
Infusions(c, stat) == IF stat \in DOMAIN c.infusions THEN c.infusions[stat] ELSE 0

\* the base attributes of a gear with the infusions the character records;
\* the clone of testInfusionUsefulness carries more than it records
RecordedBase(c) ==
  addBaseStats(
    addBaseStats(newCharacter(settings, c.gear, c.gearStats), settings.primaryInfusion,
                 Infusions(c, settings.primaryInfusion) * INFUSION_BONUS),
    settings.secondaryInfusion,
    Infusions(c, settings.secondaryInfusion) * INFUSION_BONUS).baseAttributes

\* C7: in every reachable state and every infusion mode each character of the
\* list is valid and keeps every set bound, and none is the skip-validation
\* clone of testInfusionUsefulness
C7_ListValid ==
  \A i \in 1..Len(list) :
    /\ list[i].valid
    /\ WithinBounds(list[i].attributes)
    /\ list[i].baseAttributes = RecordedBase(list[i])

\* C7 is met: a search with a toughness window has tested a gear above the
\* window and holds characters inside it
C7_Witness ==
  /\ settings.maxToughness # null
  /\ settings.infusionMode = "Secondary"
  /\ Len(list) > 0
  /\ \E i \in 1..Len(tested) :
       RGt[Get(tested[i].gearStats, "Toughness"), Num(40)]

(***************************************************************************)
(* Properties of checkInvalid                                              *)
(***************************************************************************)
\* C8: a call of checkInvalid returns true exactly when a set bound is
\* strictly violated (a value on its bound is valid, an unset bound
\* constrains nothing); it then clears the valid flag, and otherwise leaves
\* the flag, like the rest of the character, as it was
C8_CheckInvalid ==
  [][(returned = None /\ returned' # None)
       => /\ returned'[1] = ~WithinBounds(character[1].attributes)
          /\ character'[1] =
               [character[1] EXCEPT !.valid = IF returned'[1] THEN FALSE ELSE @]]_vars

\* C8 is met: with every bound set, a valid character whose attributes all
\* sit exactly on their bounds has been checked and found valid
C8_Witness ==
  /\ pc = "checked"
  /\ \A b \in DOMAIN NoBounds : settings[b] # null
  /\ character[1].attributes = OnBounds
  /\ character[1].valid
  /\ returned = Some(FALSE)

(***************************************************************************)
(* Properties of ties and of the order of the alternatives                 *)
(***************************************************************************)
\* the attribute characterLT falls back on when the rankby scores are equal
TieBreak(c) ==
  Get(c.attributes, IF settings.rankby = "Damage" THEN "Survivability" ELSE "Damage")

\* equal rankby score and equal tiebreak attribute
Tied(a, b) == REq[Score(a), Score(b)] /\ REq[TieBreak(a), TieBreak(b)]

\* C9: of two characters of the list with equal rankby score and equal
\* tiebreak attribute, the one inserted earlier (the smaller id) stands
\* before the other, in every state of the search
C9_StableTies ==
  \A i, j \in 1..Len(list) :
    (i < j /\ Tied(list[i], list[j])) => list[i].id < list[j].id

\* C9 is met: the list holds two tied characters of different gears
C9_Witness ==
  \E i, j \in 1..Len(list) :
    /\ i < j
    /\ Tied(list[i], list[j])
    /\ list[i].gear # list[j].gear

\* the gear assignments of a list, in order
Gears(l) == [i \in 1..Len(l) |-> l[i].gear]

\* the rank of each character of a list, in order
Keys(l) == [i \in 1..Len(l) |-> <<Score(l[i]), TieBreak(l[i])>>]

Scores(l) == [i \in 1..Len(l) |-> Score(l[i])]

C11_EmptyReturn ==
  (Len(settings.affixes) = 0 /\ pc = "done")
    => /\ progress = Some([ isChanged       |-> TRUE,
                            calculationRuns |-> 0,
                            newList         |-> Some(<< >>) ])
       /\ list = << >>
       /\ tested = << >>
       /\ cycles = 0


\* calculate() hands out a progress value: a yield or the final return
Emits == pc' # pc /\ pc' \in {"yielded", "done"}

\* C12: in every progress value newList is non-null exactly when isChanged
\* is true; isChanged is false right after each yield; and in every progress
\* value after the first, isChanged is true exactly when an insertCharacter
\* call added a character to the list since the previous yield
C12_IsChanged ==
  [][/\ Emits => ((progress'[1].newList # None) <=> progress'[1].isChanged)
     /\ pc = "yielded" => ~isChanged'
     /\ (Emits /\ progress # None) => (progress'[1].isChanged <=> added)]_vars

\* C12 is met: the final progress value of a search that has yielded tells of
\* no change, the list being as the yield showed it
C12_Witness ==
  /\ pc = "done"
  /\ ~progress[1].isChanged
  /\ progress[1].newList = None
  /\ ~added
  /\ Len(list) > 0
  /\ Len(tested) > 1000


(***************************************************************************)
(* Properties of the fast path                                             *)
(***************************************************************************)
\* the characters the last testCharacter call handed to updateAttributesFast
\* for insertion
FastCandidates ==
  LET base == newCharacter(settings, tested[Len(tested)].gear,
                           tested[Len(tested)].gearStats)
  IN  CASE settings.infusionMode = "None"    -> {base}
        [] settings.infusionMode = "Primary" -> {primaryInfused(settings, base)}
        [] settings.infusionMode = "Few"     -> {fewInfused(settings, base)}
        [] OTHER -> { evaluated[i].temp : i \in 1..Len(evaluated) }

\* what updateAttributesFast leaves of a character: its validity and Damage
FastDamage(s, cache, c) ==
  LET fast == updateAttributesFast(s, cache, c, FALSE)
  IN  <<fast.result, Get(fast.character.attributes, "Damage")>>

\* C13: for rankby = Damage, updateAttributesFast with the condi result cache
\* gives every candidate the Damage it gets with disableCondiResultCache = true,
\* whatever the cache holds from the candidates before it
C13_CacheAgrees ==
  (settings.rankby = "Damage" /\ Len(tested) > 0)
    => \A c \in FastCandidates :
         FastDamage(settings, condiResultCache, c)
           = FastDamage([settings EXCEPT !.disableCondiResultCache = TRUE], << >>, c)

\* C13 is met: fewer keys are stored than candidates were scored, so a
\* candidate took the score an earlier one with other gear had stored
C13_Witness ==
  /\ settings.rankby = "Damage"
  /\ settings.infusionMode = "None"
  /\ ~settings.disableCondiResultCache
  /\ \A b \in DOMAIN NoBounds : settings[b] = null
  /\ Len(tested) >= 2
  /\ Cardinality(DOMAIN condiResultCache) < Len(tested)
  /\ Cardinality(DOMAIN condiResultCache) >= 2
  /\ \A k \in DOMAIN condiResultCache : RGt[condiResultCache[k], Num(0)]
  /\ \A c \in FastCandidates :
       CONDI_CACHE_ID(calcStats(settings, c, FALSE).attributes) \in DOMAIN condiResultCache


(***************************************************************************)
(* Properties of lone calls                                                *)
(***************************************************************************)
\* the applier of each mode
Applier ==
  [mode \in InfusionModes |->
     CASE mode = "None"                  -> "applyInfusionsNone"
       [] mode = "Primary"               -> "applyInfusionsPrimary"
       [] mode = "Few"                   -> "applyInfusionsFew"
       [] mode = "Secondary"             -> "applyInfusionsSecondary"
       [] mode = "SecondaryNoDuplicates" -> "applyInfusionsSecondaryNoDuplicates"]

\* C14: new OptimizerCore(settings) succeeds exactly when infusionMode is one
\* of None, Primary, Few, Secondary, SecondaryNoDuplicates, and then binds the
\* applier of that mode; on any other value it throws and there is no engine
C14_Constructor ==
  [][pc = "new"
       => IF settings.infusionMode \in InfusionModes
          THEN /\ pc' = "constructed"
               /\ applyInfusionsFunction' = Applier[settings.infusionMode]
          ELSE /\ pc' = "thrown"
               /\ applyInfusionsFunction' = None]_vars

\* C14 is met: the constructor has thrown on a mode that differs from a known
\* one by its case only
C14_Witness ==
  /\ pc = "thrown"
  /\ settings.infusionMode = "secondary"
  /\ applyInfusionsFunction = None


\* C19: roundEven rounds half to even on every integer and half-integer of the
\* range, negative ones included: an integer is returned as it is, and n + 0.5
\* gives whichever of n and n + 1 is even
C19_HalfEven ==
  (pc = "returned" /\ DOMAIN call[1] = {"number"})
    => LET number == call[1].number
           result == returned[1]
       IN  IF number[2] = 1
           THEN result = number
           ELSE /\ result[2] = 1
                /\ result[1] % 2 = 0
                /\ result \in {Num(RFloor[number]), Num(RFloor[number] + 1)}

\* the same on the arguments from 0 up
C19_HalfEvenFromZero ==
  (pc = "returned" /\ DOMAIN call[1] = {"number"} /\ call[1].number[1] >= 0)
    => C19_HalfEven

\* roundEven has returned an odd integer for a negative half
C19_Witness ==
  /\ pc = "returned"
  /\ call = Some([number |-> <<-3, 2>>])
  /\ returned = Some(Num(-1))


\* b is strictly better than a: a larger rankby attribute, or the same and a
\* larger tiebreak attribute
StrictlyBetter(b, a) ==
  \/ RGt[Score(b), Score(a)]
  \/ Score(b) = Score(a) /\ RGt[TieBreak(b), TieBreak(a)]

\* -1, 0 or 1
Sign(x) == IF RGt[x, Num(0)] THEN 1 ELSE IF RLt[x, Num(0)] THEN -1 ELSE 0

SecondaryLeaf ==
  /\ tested' # tested
  /\ settings.infusionMode \in {"Secondary", "SecondaryNoDuplicates"}

\* the guard's verdict on the gear that step tests
GuardPassed ==
  infusionGuard(this, settings,
                newCharacter(settings, tested'[Len(tested')].gear,
                             tested'[Len(tested')].gearStats)).result

\* the pairs (p, s) with p + s = maxInfusions, from p = primaryMaxInfusions
\* down to p = maxInfusions - secondaryMaxInfusions
Splits ==
  LET n == settings.primaryMaxInfusions + settings.secondaryMaxInfusions
             - settings.maxInfusions + 1
  IN  [i \in 1..(IF n > 0 THEN n ELSE 0) |->
         << settings.primaryMaxInfusions - (i - 1),
            settings.maxInfusions - settings.primaryMaxInfusions + (i - 1) >>]

\* C15: in both Secondary modes the splits evaluated for a gear that passes
\* the guard are exactly the pairs (p, s) with p + s = maxInfusions, p going
\* down from primaryMaxInfusions to maxInfusions - secondaryMaxInfusions, in
\* that order; none is evaluated when primaryMaxInfusions +
\* secondaryMaxInfusions < maxInfusions
C15_Splits ==
  [][(SecondaryLeaf /\ GuardPassed)
       => /\ [i \in 1..Len(evaluated') |->
                <<evaluated'[i].primaryCount, evaluated'[i].secondaryCount>>] = Splits
          /\ (settings.primaryMaxInfusions + settings.secondaryMaxInfusions
                < settings.maxInfusions) => evaluated' = << >>]_vars

\* C15 is met: four splits were evaluated, from all primary to all secondary,
\* for a gear that was not the first
C15_Witness ==
  /\ settings.infusionMode \in {"Secondary", "SecondaryNoDuplicates"}
  /\ Len(evaluated) = 4
  /\ evaluated[1].primaryCount = 3 /\ evaluated[1].secondaryCount = 0
  /\ evaluated[4].primaryCount = 0 /\ evaluated[4].secondaryCount = 3
  /\ Len(tested) >= 2


\* a step that is a testCharacter call in SecondaryNoDuplicates mode
NoDuplicatesLeaf ==
  /\ tested' # tested
  /\ settings.infusionMode = "SecondaryNoDuplicates"

\* the character of the split Splits[i] of the gear that step tests, before
\* its attributes are computed
SplitCharacter(i) ==
  withInfusions(
    settings,
    addBaseStats(
      addBaseStats(clone(newCharacter(settings, tested'[Len(tested')].gear,
                                      tested'[Len(tested')].gearStats)),
                   settings.primaryInfusion, Splits[i][1] * INFUSION_BONUS),
      settings.secondaryInfusion, Splits[i][2] * INFUSION_BONUS),
    Splits[i][1], Splits[i][2])

\* the splits that pass the bounds
ValidSplits ==
  { i \in 1..Len(Splits) :
      ~invalid(settings, calcStats(settings, SplitCharacter(i), FALSE).attributes) }

\* a character with every score computed
Full(c) == updateAttributes(settings, c, FALSE)

\* the one insertCharacter call of the step was made with a valid split that
\* no valid split beats
BestInserted ==
  /\ Len(inserted') = 1
  /\ \E i \in ValidSplits :
       /\ inserted'[1].infusions = SplitCharacter(i).infusions
       /\ inserted'[1].baseAttributes = SplitCharacter(i).baseAttributes
  /\ \A j \in ValidSplits :
       ~StrictlyBetter(Full(SplitCharacter(j)), Full(inserted'[1]))

\* C16: in SecondaryNoDuplicates mode insertCharacter is called at most once
\* for each gear: exactly once when at least one split is valid, with a valid
\* split that no other valid split beats under the rank comparator (rankby
\* score, then tiebreak attribute), and not at all when every split is invalid
C16_BestOnce ==
  [][NoDuplicatesLeaf
       => /\ Len(inserted') <= 1
          /\ ValidSplits = {} => inserted' = << >>
          /\ ValidSplits # {} => BestInserted]_vars

\* the rankby score updateAttributesFast gives the split Splits[i]
FastScore(i) ==
  Get(updateAttributesFast(settings, condiResultCache, SplitCharacter(i),
                           FALSE).character.attributes, settings.rankby)

\* what the code does: a gear the guard rejects is not inserted; of a gear
\* that passes, the first of the valid splits with the largest rankby score is
\* inserted, whatever the tiebreak attributes
C16_FirstOfLargest ==
  [][NoDuplicatesLeaf
       => /\ Len(inserted') <= 1
          /\ (ValidSplits = {} \/ ~GuardPassed) => inserted' = << >>
          /\ (ValidSplits # {} /\ GuardPassed)
               => /\ Len(inserted') = 1
                  /\ \E i \in ValidSplits :
                       /\ inserted'[1].infusions = SplitCharacter(i).infusions
                       /\ inserted'[1].baseAttributes = SplitCharacter(i).baseAttributes
                       /\ \A j \in ValidSplits :
                            /\ ~RGt[FastScore(j), FastScore(i)]
                            /\ j < i => RLt[FastScore(j), FastScore(i)]]_vars

\* insertCharacter was called with the split of three Toughness infusions of
\* a gear ranked by Healing, whose split of three Power infusions heals the
\* same and deals more Damage
C16_Witness ==
  /\ settings.infusionMode = "SecondaryNoDuplicates"
  /\ settings.rankby = "Healing"
  /\ Len(evaluated) = 4
  /\ \A i \in 1..4 : evaluated[i].temp.valid
  /\ Len(inserted) = 1
  /\ inserted[1].infusions = [Toughness |-> 3, Power |-> 0]


(***************************************************************************)
(* Properties of updateAttributes                                          *)
(***************************************************************************)
\* C18: updateAttributes called again on a character of the result list gives
\* the attributes[rankby] that is stored, and every other attribute too: the
\* attributes are rebuilt from baseAttributes and nothing accumulates, however
\* often it is called
C18_Idempotent ==
  \A i \in 1..Len(list) :
    LET again == updateAttributes(settings, list[i], FALSE)
    IN  /\ Score(again) = Score(list[i])
        /\ again.attributes = list[i].attributes
        /\ again.baseAttributes = list[i].baseAttributes
        /\ updateAttributes(settings, again, FALSE) = again

\* C18 is met: the list holds characters with infusions, computed under
\* conversions and buffs that feed on derived values
C18_Witness ==
  /\ Len(list) >= 2
  /\ settings.modifiers = RichModifiers
  /\ settings.infusionMode = "Few"
  /\ \A i \in 1..Len(list) :
       /\ list[i].infusions # EmptyObject
       /\ RGt[Get(list[i].attributes, "Armor"), Get(list[i].baseAttributes, "Armor")]
       /\ RGt[Get(list[i].attributes, "Critical Chance"),
              Get(list[i].baseAttributes, "Critical Chance")]


(***************************************************************************)
(* Properties of the progress count                                        *)
(***************************************************************************)
\* the number of gear assignments: the product of the alternatives of all
\* slots
RECURSIVE Assignable(_, _)
Assignable(affixesArray, k) ==
  IF k > Len(affixesArray) THEN 1
  ELSE Len(affixesArray[k]) * Assignable(affixesArray, k + 1)

RECURSIVE Replay(_, _)
Replay(calls, k) ==
  IF k = 0 THEN this
  ELSE insertCharacter(Replay(calls, k - 1), settings, calls[k])

\* the insertion position of c in the list l, stated on its own: every
\* element from the position on is worse than c, the one before is not
Position(l, c) ==
  CHOOSE p \in 0..Len(l) :
    /\ \A i \in (p + 1)..Len(l) : RGt[characterLT(l[i], c, settings.rankby), Num(0)]
    /\ p > 0 => ~RGt[characterLT(l[p], c, settings.rankby), Num(0)]

\* the character is invalid, or worstScore is non-zero and greater than its
\* rankby score
TurnedAway(engine, c) ==
  \/ ~c.valid
  \/ /\ ~REq[engine.worstScore, Num(0)]
     /\ RGt[engine.worstScore, Score(c)]

\* the cases in which a call does not add its character: turned away, or an
\* insertion position >= maxResults
Refused(engine, c) ==
  \/ TurnedAway(engine, c)
  \/ Position(engine.list, Full(c)) >= settings.maxResults

\* list, worstScore and isChanged are the same in both engines
SameResults(before, after) ==
  /\ after.list = before.list
  /\ after.worstScore = before.worstScore
  /\ after.isChanged = before.isChanged

\* C21: an insertCharacter call that does not add its character (invalid, or
\* worstScore non-zero and greater than its rankby score, or insertion
\* position >= maxResults) leaves the list, worstScore and isChanged as they
\* were
C21_RefusedFrame ==
  [][tested' # tested
       => \A k \in 1..Len(inserted') :
            Refused(Replay(inserted', k - 1), inserted'[k])
              => SameResults(Replay(inserted', k - 1), Replay(inserted', k))]_vars

\* what the code does: the same, except that a call on the empty list adds
\* its character whatever maxResults
C21_RefusedFrameOfNonEmpty ==
  [][tested' # tested
       => /\ Replay(inserted', Len(inserted')).list = list'
          /\ \A k \in 1..Len(inserted') :
               LET before == Replay(inserted', k - 1)
               IN  (/\ Refused(before, inserted'[k])
                    /\ (TurnedAway(before, inserted'[k]) \/ Len(before.list) > 0))
                     => SameResults(before, Replay(inserted', k))]_vars

\* a call on the empty list with maxResults = 0 has added its character
C21_Witness ==
  /\ settings.maxResults = 0
  /\ Len(inserted) = 1
  /\ Len(tested) = 1
  /\ inserted[1].valid
  /\ Len(list) = 1


(***************************************************************************)
(* Properties of the yield                                                 *)
(***************************************************************************)
\* C22: the search suspends only at the start of a loop iteration whose
\* 1-based count is a multiple of 1000, before the pop of that iteration, with
\* both stacks non-empty and of equal length; a search of fewer than 1000
\* iterations hands out no progress value before the final one
C22_YieldPoint ==
  [][/\ (pc' = "yielded" /\ pc # "yielded")
          => /\ pc = "loop"
             /\ (popped + 1) % 1000 = 0
             /\ popped' = popped
             /\ calculationQueue' = calculationQueue
             /\ calculationStatsQueue' = calculationStatsQueue
             /\ Len(calculationQueue') > 0
             /\ Len(calculationStatsQueue') = Len(calculationQueue')
     /\ (progress' # None /\ pc' # "done") => popped' >= 999
     /\ (pc' = "done" /\ popped' < 1000 /\ pc # "done") => progress = None]_vars

\* C22 is met: the search stands at its second yield, at the start of
\* iteration 2000
C22_Witness ==
  /\ pc = "yielded"
  /\ popped = 1999
  /\ progress # None
  /\ Len(calculationQueue) > 0


(***************************************************************************)
(* Properties of the order of the search                                   *)
(***************************************************************************)
\* the index of an affix among the alternatives of slot k (from 0)
IndexOf(k, affix) ==
  (CHOOSE i \in 1..Len(At(settings.affixesArray, k)) :
     At(settings.affixesArray, k)[i] = affix) - 1

\* the place of the alternative index in the order of the search: index 0
\* first, then the others from the last down
Turn(k, index) ==
  IF index = 0 THEN 0 ELSE Len(At(settings.affixesArray, k)) - index

\* the first slot (from 0) on which the gears g and h differ
FirstDifference(g, h) ==
  CHOOSE k \in 0..(Len(g) - 1) :
    /\ At(g, k) # At(h, k)
    /\ \A l \in 0..(k - 1) : At(g, l) = At(h, l)

\* g comes before h in the depth-first order: on the first slot they differ,
\* the alternative of g has its turn before that of h
Before(g, h) ==
  /\ g # h
  /\ LET k == FirstDifference(g, h)
     IN  Turn(k, IndexOf(k, At(g, k))) < Turn(k, IndexOf(k, At(h, k)))

\* the complete gear assignments none of whose prefixes the symmetry test
\* rejects
Unpruned ==
  { g \in Assignments(settings.affixesArray, settings.slots) :
      \A k \in 0..settings.slots : ~pruned(SubSeq(g, 1, k), k) }

\* C23: the complete gears reach testCharacter in depth-first order, last
\* push first: under every prefix the gears with alternative 0 of the next
\* slot come first, then those of the other alternatives from the last index
\* down; and a completed search has passed every complete assignment that is
\* not under a pruned prefix to testCharacter exactly once
C23_DepthFirst ==
  [][/\ (tested' # tested /\ Len(tested) > 0)
          => Before(tested[Len(tested)].gear, tested'[Len(tested')].gear)
     /\ (pc' = "done" /\ pc # "done" /\ Len(settings.affixes) # 0)
          => /\ TestedGears = Unpruned
             /\ Len(tested) = Cardinality(Unpruned)]_vars

\* C23 is met: a completed search over a slot of three alternatives and two
\* open rings, which has skipped the prefixes with the rings out of order
C23_Witness ==
  /\ pc = "done"
  /\ ~settings.forcedRing
  /\ settings.slots = 14
  /\ Len(At(settings.affixesArray, 11)) = 3
  /\ Len(tested) = 18
  /\ Len(tested) < Assignable(settings.affixesArray, 1)


(***************************************************************************)
(* Properties of the two stacks                                            *)
(***************************************************************************)
\* the bonus the [stat, bonus] pairs from the i-th on give to stat
RECURSIVE Bonus(_, _, _)
Bonus(stats, stat, i) ==
  IF i > Len(stats) THEN Num(0)
  ELSE RAdd[IF stats[i][1] = stat THEN stats[i][2] ELSE Num(0), Bonus(stats, stat, i + 1)]

\* the bonus the affixes of the slots from k on give to stat
RECURSIVE StatTotal(_, _, _)
StatTotal(gear, stat, k) ==
  IF k >= Len(gear) THEN Num(0)
  ELSE RAdd[Bonus(At(At(settings.affixStatsArray, k), IndexOf(k, At(gear, k))), stat, 1),
            StatTotal(gear, stat, k + 1)]

\* the stats the affixes of a gear prefix carry
StatsIn(gear) ==
  UNION { { At(At(settings.affixStatsArray, k), IndexOf(k, At(gear, k)))[i][1] :
              i \in 1..Len(At(At(settings.affixStatsArray, k), IndexOf(k, At(gear, k)))) } :
          k \in 0..(Len(gear) - 1) }

\* the sum of the affix bonuses of a gear prefix, stat by stat
StatsOf(gear) == [stat \in StatsIn(gear) |-> StatTotal(gear, stat, 0)]

\* C24: in every state of the search loop the gear stack and the stats stack
\* have the same length, and every stats entry is the sum of the affix
\* bonuses of the gear prefix at the same index, the entry that reuses the
\* popped arrays included, up to the pair handed to testCharacter; so both
\* pops of a pass give a value and the 'Invalid internal state' error is not
\* thrown
C24_AlignedStacks ==
  /\ Len(calculationStatsQueue) = Len(calculationQueue)
  /\ \A i \in 1..Len(calculationQueue) :
       /\ DOMAIN calculationStatsQueue[i] = StatsIn(calculationQueue[i])
       /\ \A stat \in StatsIn(calculationQueue[i]) :
            calculationStatsQueue[i][stat] = StatTotal(calculationQueue[i], stat, 0)
  /\ Len(tested) > 0
       => tested[Len(tested)].gearStats = StatsOf(tested[Len(tested)].gear)

\* C24 is met: the stacks hold the three extensions of a prefix of eleven
\* slots, the recycled one on top
C24_Witness ==
  /\ pc = "loop"
  /\ Len(calculationQueue) >= 3
  /\ Len(top(calculationQueue)) = 12
  /\ Len(At(settings.affixesArray, 11)) = 3
  /\ At(top(calculationQueue), 11) = At(At(settings.affixesArray, 11), 0)
  /\ Get(top(calculationStatsQueue), "Toughness") = Num(30)


(***************************************************************************)
(* Properties of the symmetry test                                         *)
(***************************************************************************)
\* the symmetric groups with their slots in order and their forcing flags
FlaggedGroups ==
  { [slots |-> <<1, 3, 5>>, forced |-> settings.forcedArmor],
    [slots |-> <<7, 8>>,    forced |-> settings.forcedRing],
    [slots |-> <<9, 10>>,   forced |-> settings.forcedAcc],
    [slots |-> <<12, 13>>,  forced |-> settings.forcedWep] }

\* two neighbouring slots of the group hold affixes in descending order
OutOfOrder(gear, slots) ==
  \E i \in 1..(Len(slots) - 1) :
    /\ slots[i + 1] < Len(gear)
    /\ At(gear, slots[i]) > At(gear, slots[i + 1])

\* a step that is a pass skipping the popped prefix
PruneStep ==
  /\ popped' # popped
  /\ tested' = tested
  /\ Len(calculationQueue') < Len(calculationQueue)

\* C25: no complete gear passed to testCharacter has a symmetric group out of
\* canonical order whose forcing flag is unset (gear[1] > gear[3] or gear[3] >
\* gear[5], gear[7] > gear[8], gear[9] > gear[10], gear[12] > gear[13]); and a
\* prefix is skipped only on account of a group whose flag is unset
C25_CanonicalOrder ==
  [][/\ tested' # tested
          => \A group \in FlaggedGroups :
               ~group.forced => ~OutOfOrder(tested'[Len(tested')].gear, group.slots)
     /\ PruneStep
          => \E group \in FlaggedGroups :
               /\ ~group.forced
               /\ OutOfOrder(top(calculationQueue), group.slots)]_vars

\* C25 is met: with the rings and the weapons forced and the other groups
\* free, a gear with both forced groups out of order was tested and prefixes
\* were skipped
C25_Witness ==
  /\ settings.forcedRing /\ settings.forcedWep
  /\ ~settings.forcedAcc /\ ~settings.forcedArmor
  /\ Len(tested) > 0
  /\ OutOfOrder(tested[Len(tested)].gear, <<7, 8>>)
  /\ OutOfOrder(tested[Len(tested)].gear, <<12, 13>>)
  /\ calculationRuns > Len(tested)


(***************************************************************************)
(* Properties of applyInfusionsSecondary                                   *)
(***************************************************************************)
\* the i-th split the step evaluated was passed to insertCharacter
Passed(i) ==
  \E k \in 1..Len(inserted') :
    /\ inserted'[k].infusions =
         withInfusions(settings, evaluated'[i].temp, evaluated'[i].primaryCount,
                       evaluated'[i].secondaryCount).infusions
    /\ inserted'[k].baseAttributes = evaluated'[i].temp.baseAttributes

\* the i-th split is valid, and is the first or has another rankby score than
\* the split of the iteration before
Distinct(i) ==
  /\ evaluated'[i].temp.valid
  /\ \/ i = 1
     \/ ~REq[Score(evaluated'[i].temp), Score(evaluated'[i - 1].temp)]

\* C26: in Secondary mode a valid split is passed to insertCharacter exactly
\* when its rankby score differs from that of the split evaluated in the
\* iteration before (the first valid split is always passed); an invalid
\* split is never passed
C26_DistinctPassed ==
  [][(tested' # tested /\ settings.infusionMode = "Secondary")
       => /\ \A i \in 1..Len(evaluated') : Passed(i) <=> Distinct(i)
          /\ Len(inserted') = Cardinality({ i \in 1..Len(evaluated') : Distinct(i) })]_vars

\* of four valid splits that heal the same only the first was passed on
C26_DuplicatesSkipped ==
  /\ settings.infusionMode = "Secondary"
  /\ settings.rankby = "Healing"
  /\ Len(evaluated) = 4
  /\ \A i \in 1..4 : evaluated[i].temp.valid
  /\ Len(inserted) = 1
  /\ inserted[1].infusions = [Toughness |-> 3, Power |-> 0]


\* the i-th split is valid, and no split before it was taken or the last one
\* taken has another rankby score
RECURSIVE Taken(_)
Taken(i) ==
  /\ evaluated'[i].temp.valid
  /\ LET prior == { j \in 1..(i - 1) : Taken(j) }
     IN  \/ prior = {}
         \/ ~REq[Score(evaluated'[i].temp),
                 Score(evaluated'[CHOOSE j \in prior : \A l \in prior : l <= j].temp)]

\* what the code does: the score is compared with that of the last split
\* passed to insertCharacter, however many invalid splits lie between
C26_DistinctFromLastPassed ==
  [][(tested' # tested /\ settings.infusionMode = "Secondary")
       => /\ \A i \in 1..Len(evaluated') : Passed(i) <=> Taken(i)
          /\ Len(inserted') = Cardinality({ i \in 1..Len(evaluated') : Taken(i) })]_vars

\* a gear whose first and third split are valid and heal the same, with an
\* invalid split between them: only the first was passed on
C26_SkippedAfterInvalid ==
  /\ settings.infusionMode = "Secondary"
  /\ Len(evaluated) = 4
  /\ evaluated[1].temp.valid
  /\ ~evaluated[2].temp.valid
  /\ evaluated[3].temp.valid
  /\ REq[Score(evaluated[3].temp), Score(evaluated[1].temp)]
  /\ Len(inserted) = 1
  /\ inserted[1].infusions = [Power |-> 3, Precision |-> 0]


(***************************************************************************)
(* Properties of the guard of the Secondary appliers                       *)
(***************************************************************************)
\* the gear the step tests with maxInfusions infusions of both stats at once
GuardClone ==
  addBaseStats(
    addBaseStats(clone(newCharacter(settings, tested'[Len(tested')].gear,
                                    tested'[Len(tested')].gearStats)),
                 settings.primaryInfusion, settings.maxInfusions * INFUSION_BONUS),
    settings.secondaryInfusion, settings.maxInfusions * INFUSION_BONUS)

\* its rankby score on the fast path, validation skipped
GuardScore ==
  Score(updateAttributesFast(settings, condiResultCache, GuardClone, TRUE).character)

\* the counts of the splits the step evaluated, in order
EvaluatedSplits ==
  [i \in 1..Len(evaluated') |->
     <<evaluated'[i].primaryCount, evaluated'[i].secondaryCount>>]

\* C27: in both Secondary modes, with worstScore 0 the guard is skipped and
\* every split of the gear is evaluated; with worstScore non-zero no split is
\* evaluated or inserted unless the fast-path rankby score of the gear with
\* maxInfusions * 5 added to both infusion stats, validation skipped, is
\* strictly greater than worstScore; the guard's clone leaves the list and
\* worstScore alone, and the splits start from the base attributes of the
\* gear without the guard's additions
C27_Guard ==
  [][SecondaryLeaf
       => /\ REq[worstScore, Num(0)] => EvaluatedSplits = Splits
          /\ (~REq[worstScore, Num(0)] /\ ~RGt[GuardScore, worstScore])
               => /\ evaluated' = << >>
                  /\ inserted' = << >>
                  /\ list' = list
                  /\ worstScore' = worstScore
          /\ \A i \in 1..Len(evaluated') :
               evaluated'[i].temp.baseAttributes = SplitCharacter(i).baseAttributes
          /\ Replay(inserted', Len(inserted')).list = list'
          /\ Replay(inserted', Len(inserted')).worstScore = worstScore']_vars

\* C27 is met: with a full list, a gear that has splits was turned down by the
\* guard, and none of its splits was evaluated
C27_Witness ==
  /\ settings.infusionMode \in {"Secondary", "SecondaryNoDuplicates"}
  /\ Len(Splits) = 4
  /\ Len(list) = settings.maxResults
  /\ ~REq[worstScore, Num(0)]
  /\ Len(tested) > 2
  /\ evaluated = << >>
  /\ inserted = << >>


(***************************************************************************)
(* Properties of the conversions of calcStats                              *)
(***************************************************************************)
\* the sum of the terms the [source, percent] pairs from the i-th on give to
\* attribute, every source read from baseAttributes
RECURSIVE ConvertedTerms(_, _, _, _)
ConvertedTerms(baseAttributes, attribute, conversion, i) ==
  IF i > Len(conversion) THEN Num(0)
  ELSE RAdd[maybeRound(attribute, FALSE,
                       RMul[Get(baseAttributes, conversion[i][1]), conversion[i][2]]),
            ConvertedTerms(baseAttributes, attribute, conversion, i + 1)]

\* the base attributes with, for every entry of convert, the terms of the
\* entry added to its attribute
Converted(baseAttributes, convert) ==
  [attribute \in DOMAIN baseAttributes |->
     LET entries == { e \in 1..Len(convert) : convert[e][1] = attribute }
     IN  IF entries = {} THEN baseAttributes[attribute]
         ELSE RAdd[baseAttributes[attribute],
                   ConvertedTerms(baseAttributes, attribute,
                                  convert[CHOOSE e \in entries : TRUE][2], 1)]]

\* settings with the entries of modifiers.convert in the order p
ConvertPermuted(p) ==
  [settings EXCEPT !.modifiers.convert = Permuted(@, p)]

\* C28: the pre-buff conversions read their sources from baseAttributes only:
\* for every order of the entries of modifiers.convert calcStats gives the
\* same attributes, and each entry adds to its attribute the terms computed
\* from the values the sources had before any conversion, also when a source
\* is the attribute of another entry
C28_ConvertFromBase ==
  \A i \in 1..Len(list) :
    /\ \A p \in Permutations(1..Len(settings.modifiers.convert)) :
         calcStats(ConvertPermuted(p), list[i], FALSE).attributes
           = calcStats(settings, list[i], FALSE).attributes
    /\ calcStats(settings, list[i], FALSE).attributes
         = calcStatsBuffs(settings,
                          Converted(list[i].baseAttributes, settings.modifiers.convert),
                          FALSE)
    /\ \A e \in 1..Len(settings.modifiers.convert) :
         (settings.modifiers.buff = << >> /\ settings.modifiers.convertAfterBuffs = << >>)
           => Get(list[i].attributes, settings.modifiers.convert[e][1])
                = Get(Converted(list[i].baseAttributes, settings.modifiers.convert),
                      settings.modifiers.convert[e][1])

\* C28 is met: the list holds a character whose Power was fed from the
\* Toughness of its base attributes while its Toughness was fed from Power
C28_Witness ==
  /\ settings.modifiers = TwoSourceModifiers
  /\ Len(list) > 0
  /\ Get(list[1].baseAttributes, "Toughness") = Num(120)
  /\ Get(list[1].attributes, "Toughness") = Num(346)
  /\ Get(list[1].attributes, "Power")
       = RAdd[Get(list[1].baseAttributes, "Power"), Num(12)]


(***************************************************************************)
(* Properties of the post-buff conversions                                 *)
(***************************************************************************)
\* what each 'Critical Chance -X' source takes off the critical chance
TakenOff ==
  ("Critical Chance -7" :> <<7, 100>>) @@ ("Critical Chance -20" :> <<1, 5>>)
    @@ ("Critical Chance -27" :> <<27, 100>>) @@ ("Critical Chance -30" :> <<3, 10>>)
    @@ ("Critical Chance -37" :> <<37, 100>>)

\* the attributes calcStats leaves for the lone call when there is no
\* post-buff conversion
BeforeConversion ==
  calcStats([settings EXCEPT !.modifiers.convertAfterBuffs = << >>],
            call[1].character, FALSE).attributes

\* the value a source stands for
SourceValue(attributes, source) ==
  IF source = "Critical Chance"
  THEN clamp(Get(attributes, "Critical Chance"), Num(0), Num(1))
  ELSE IF source \in DOMAIN TakenOff
  THEN clamp(RSub[Get(attributes, "Critical Chance"), TakenOff[source]], Num(0), Num(1))
  ELSE Get(attributes, source)

\* attributes with one term added to attribute for the pair (source, percent)
OneTerm(attributes, attribute, source, percent) ==
  Put(attributes, attribute,
      RAdd[Get(attributes, attribute),
           maybeRound(attribute, FALSE, RMul[SourceValue(attributes, source), percent])])

\* the lone call of calcStats has returned
StatsReturned == pc = "returned" /\ call # None /\ DOMAIN call[1] = {"character"}

\* C29: in the post-buff conversion step every (source, percent) pair adds
\* exactly one term to its attribute, round(v * percent), rounded for point
\* attributes only, with v = clamp(Critical Chance, 0, 1) for 'Critical
\* Chance', clamp(Critical Chance - X/100, 0, 1) for 'Critical Chance -X', X
\* in {7, 20, 27, 30, 37}, and attributes[source] for every other source
C29_OneTerm ==
  StatsReturned
    => LET entry == settings.modifiers.convertAfterBuffs[1]
       IN  returned[1].attributes
             = OneTerm(BeforeConversion, entry[1], entry[2][1][1], entry[2][1][2])

\* what the code does: the five sources from 'Critical Chance' to 'Critical
\* Chance -30' add their one term; 'Critical Chance -37' adds its term and a
\* second one read from attributes['Critical Chance -37'], which is undefined,
\* so the attribute ends as NaN; any other source adds nothing
C29_CodeTerms ==
  StatsReturned
    => LET entry     == settings.modifiers.convertAfterBuffs[1]
           attribute == entry[1]
           source    == entry[2][1][1]
       IN  returned[1].attributes
             = IF source = "Critical Chance -37" THEN Put(BeforeConversion, attribute, NaN)
               ELSE IF source = "Critical Chance" \/ source \in DOMAIN TakenOff
               THEN OneTerm(BeforeConversion, attribute, source, entry[2][1][2])
               ELSE BeforeConversion

\* calcStats has returned for a conversion of a tenth of Precision into
\* Ferocity, and Ferocity is what it was before the conversion step
C29_Witness ==
  /\ StatsReturned
  /\ settings.modifiers.convertAfterBuffs
       = << <<"Ferocity", << <<"Precision", <<1, 10>> >> >> >> >>
  /\ Get(returned[1].baseAttributes, "Precision") = Num(1210)
  /\ Get(returned[1].attributes, "Ferocity") = Get(BeforeConversion, "Ferocity")


(***************************************************************************)
(* Properties of the recorded infusions                                    *)
(***************************************************************************)
\* what the settings bundle guarantees of the infusion limits: no cap above
\* maxInfusions, and in the mode Few both caps together within it
LimitsGuaranteed ==
  /\ settings.primaryMaxInfusions \in 0..settings.maxInfusions
  /\ settings.secondaryMaxInfusions \in 0..settings.maxInfusions
  /\ settings.infusionMode = "Few"
       => settings.primaryMaxInfusions + settings.secondaryMaxInfusions
            <= settings.maxInfusions

\* the base value of a stat for a gear with count infusions of it
InfusedBase(c, stat, count) ==
  RAdd[RAdd[Get(settings.baseAttributes, stat),
            IF stat \in DOMAIN c.gearStats THEN c.gearStats[stat] ELSE Num(0)],
       Num(5 * count)]

Last(l) == l[Len(l)]

\* the engine before and after the k-th insertCharacter call of the step
BeforeCall(k) == Replay(inserted', k - 1)
AfterCall(k) == Replay(inserted', k)

\* C31: over any run worstScore never decreases once it is non-zero, and each
\* insertion into a full list that drops the last element leaves a last
\* element that is not worse than the dropped one
C31_Threshold ==
  [][/\ ~REq[worstScore, Num(0)] => ~IsNaN(worstScore') /\ ~RLt[worstScore', worstScore]
     /\ tested' # tested
          => /\ AfterCall(Len(inserted')).worstScore = worstScore'
             /\ \A k \in 1..Len(inserted') :
                  /\ ~REq[BeforeCall(k).worstScore, Num(0)]
                       => ~RLt[AfterCall(k).worstScore, BeforeCall(k).worstScore]
                  /\ ( /\ settings.maxResults >= 1
                       /\ Len(BeforeCall(k).list) = settings.maxResults
                       /\ AfterCall(k).list # BeforeCall(k).list )
                       => /\ Len(AfterCall(k).list) = settings.maxResults
                          /\ NotBetter(Last(AfterCall(k).list),
                                       Last(BeforeCall(k).list))]_vars

\* C31 is met: the last element of the full list went in after maxResults
\* others had been accepted, so it took the place of a dropped last element
\* and raised the threshold
C31_Witness ==
  /\ settings.maxResults >= 2
  /\ Len(list) = settings.maxResults
  /\ Last(list).id >= settings.maxResults
  /\ worstScore = Score(Last(list))
  /\ RGt[worstScore, Score(list[1])] = FALSE
  /\ RGt[Score(list[1]), worstScore]


(***************************************************************************)
(* Soundness of the usefulness guard                                       *)
(***************************************************************************)
\* the split Splits[i] of the gear the step tests, as updateAttributesFast
\* hands it to insertCharacter
FastSplit(i) ==
  updateAttributesFast(settings, condiResultCache, SplitCharacter(i), FALSE).character

\* insertCharacter would add the split Splits[i] to the list as it stands
WouldAdd(i) == insertCharacter(this, settings, FastSplit(i)).list # list

\* the rankby score does not fall as infusions are added: no split scores
\* above the gear with maxInfusions infusions of both stats
Monotone == \A i \in 1..Len(Splits) : ~RGt[FastScore(i), GuardScore]

\* C32: with a rankby score that is non-decreasing in both infusion stats,
\* the guard never turns down a gear one of whose valid splits insertCharacter
\* would have added, a split whose rankby score equals worstScore and whose
\* tiebreak attribute beats the last element included
C32_GuardSound ==
  [][(SecondaryLeaf /\ Monotone /\ ~GuardPassed)
       => \A i \in 1..Len(Splits) : ~WouldAdd(i)]_vars

\* what the code does: a split of a gear the guard turns down would be added
\* only with a rankby score equal to worstScore
C32_GuardSoundUpToTies ==
  [][(SecondaryLeaf /\ Monotone /\ ~GuardPassed)
       => \A i \in 1..Len(Splits) :
            WouldAdd(i)
              => /\ REq[FastScore(i), worstScore]
                 /\ REq[GuardScore, worstScore]
                 /\ StrictlyBetter(Full(FastSplit(i)), Last(list))]_vars


\* the split Splits[i] of the gear tested last, as updateAttributesFast hands
\* it to insertCharacter
LastFastSplit(i) ==
  LET t == tested[Len(tested)]
  IN  updateAttributesFast(
        settings, condiResultCache,
        withInfusions(
          settings,
          addBaseStats(
            addBaseStats(clone(newCharacter(settings, t.gear, t.gearStats)),
                         settings.primaryInfusion, Splits[i][1] * INFUSION_BONUS),
            settings.secondaryInfusion, Splits[i][2] * INFUSION_BONUS),
          Splits[i][1], Splits[i][2]),
        FALSE).character

\* C32 fails: the guard has turned down the gear tested last, and
\* insertCharacter would add one of its splits, which ties with worstScore and
\* beats the last element on the tiebreak attribute
C32_Witness ==
  /\ settings.infusionMode \in {"Secondary", "SecondaryNoDuplicates"}
  /\ Len(tested) > 0
  /\ evaluated = << >>
  /\ Truthy[worstScore]
  /\ \E i \in 1..Len(Splits) :
       /\ insertCharacter(this, settings, LastFastSplit(i)).list # list
       /\ REq[Score(LastFastSplit(i)), worstScore]
       /\ RGt[TieBreak(Full(LastFastSplit(i))), TieBreak(Last(list))]


(***************************************************************************)
(* Objects and references.  The operators above work on values; here one   *)
(* testCharacter call is followed through the objects it shares: a heap is *)
(* a sequence of attribute objects, a reference is an index into it, and a *)
(* character holds references in baseAttributes and attributes (0 for      *)
(* null).  What is computed comes from the operators above, applied to the *)
(* character as the heap shows it.                                         *)
(***************************************************************************)
\* the reference of settings.baseAttributes
SettingsBase == 1

\* the heap before a testCharacter call: settings.baseAttributes alone
Heap == << settings.baseAttributes >>

\* a faulty copy: the reference itself is handed on
copiedByReference(heap, ref) == [heap |-> heap, ref |-> ref]

\* { ...object }: a new object with the properties of the one at ref
copied(heap, ref) == [heap |-> Append(heap, heap[ref]), ref |-> Len(heap) + 1]

\* the heap with the object at ref rewritten
written(heap, ref, object) == [heap EXCEPT ![ref] = object]

\* the character as the heap shows it
View(heap, c) ==
  [c EXCEPT !.baseAttributes = heap[c.baseAttributes],
            !.attributes = IF c.attributes = 0 THEN EmptyObject ELSE heap[c.attributes]]

\* the character object testCharacter builds, and the heap with its
\* baseAttributes
builtOnHeap(heap, gear, gearStats) ==
  LET base == copied(heap, SettingsBase)
  IN  [ heap |-> written(base.heap, base.ref,
                         applyGear(base.heap[base.ref], gearStats, DOMAIN gearStats)),
        c    |-> [newCharacter(settings, gear, gearStats) EXCEPT
                    !.baseAttributes = base.ref, !.attributes = 0] ]

\* clone(character): a copy of baseAttributes, the attributes by reference
cloneOnHeap(heap, c) ==
  LET base == copied(heap, c.baseAttributes)
  IN  [ heap |-> base.heap, c |-> [clone(c) EXCEPT !.baseAttributes = base.ref] ]

\* addBaseStats(character, stat, amount)
addBaseStatsOnHeap(heap, c, stat, amount) ==
  written(heap, c.baseAttributes,
          addBaseStats(View(heap, c), stat, amount).baseAttributes)

\* calcStats and what follows it in either updateAttributes: the attributes
\* become a new object, { ...character.baseAttributes }, which takes every
\* later write; computed is the character the operators above return
attributesOnHeap(heap, c, computed) ==
  LET fresh == copied(heap, c.baseAttributes)
  IN  [ heap |-> written(fresh.heap, fresh.ref, computed.attributes),
        c    |-> [c EXCEPT !.attributes = fresh.ref, !.valid = computed.valid] ]

\* updateAttributes(character, noRounding)
updateAttributesOnHeap(heap, c, noRounding) ==
  Then(updateAttributes(settings, View(heap, c), noRounding),
       LAMBDA computed : attributesOnHeap(heap, c, computed))

\* updateAttributes on a clone made by calcResults: the attributes become a
\* new object, { ...character.baseAttributes } (calcStats), and the scores go
\* into that object; calcResults reads them for its display strings only, and
\* their values are not followed here
scratchAttributesOnHeap(heap, c) == copied(heap, c.baseAttributes).heap

\* settings.distribution: the share of each damage source, as its coefficient
distribution ==
  ("Power" :> Num(2597)) @@ ("Burning" :> Num(2)) @@ ("Torment" :> Num(1))

\* the attributes of the +-5 sensitivities of calcResults
Sensitivities == <<"Power", "Precision", "Ferocity", "Condition Damage", "Expertise">>

\* Math.max(x - 5, 0)
lessFive(x) ==
  IF IsNaN(x) THEN NaN
  ELSE IF RLt[RSub[x, Num(5)], Num(0)] THEN Num(0) ELSE RSub[x, Num(5)]

\* one clone of calcResults: temp.baseAttributes[attribute] = value, then
\* updateAttributes(temp, true); the heap afterwards
sensitivityOnHeap(heap, c, attribute, value) ==
  LET temp == cloneOnHeap(heap, c)
  IN  scratchAttributesOnHeap(
        written(temp.heap, temp.c.baseAttributes,
                Put(temp.heap[temp.c.baseAttributes], attribute, value)),
        temp.c)

\* the loops over the five attributes, from the k-th on: += 5, and
\* Math.max(... - 5, 0)
RECURSIVE positiveValuesOnHeap(_, _, _)
positiveValuesOnHeap(heap, c, k) ==
  IF k > Len(Sensitivities) THEN heap
  ELSE Then(sensitivityOnHeap(heap, c, Sensitivities[k],
                              RAdd[Get(heap[c.baseAttributes], Sensitivities[k]),
                                   Num(5)]),
            LAMBDA next : positiveValuesOnHeap(next, c, k + 1))

RECURSIVE negativeValuesOnHeap(_, _, _)
negativeValuesOnHeap(heap, c, k) ==
  IF k > Len(Sensitivities) THEN heap
  ELSE Then(sensitivityOnHeap(heap, c, Sensitivities[k],
                              lessFive(Get(heap[c.baseAttributes], Sensitivities[k]))),
            LAMBDA next : negativeValuesOnHeap(next, c, k + 1))

\* the baseAttributes of attrsWithModifiedCoefficient(newCoefficient)
RECURSIVE modifiedCoefficients(_, _, _)
modifiedCoefficients(base, newCoefficient, keys) ==
  IF keys = {} THEN base
  ELSE LET key == CHOOSE x \in keys : TRUE
       IN  modifiedCoefficients(
             AddTo(AddTo(base, key \o " Coefficient", RNeg[distribution[key]]),
                   key \o " Coefficient", Num(newCoefficient)),
             newCoefficient, keys \ {key})

\* attrsWithModifiedCoefficient(newCoefficient): a clone whose baseAttributes
\* are a copy of the character's
coefficientOnHeap(heap, c, newCoefficient) ==
  LET cloned == cloneOnHeap(heap, c)
      base   == copied(cloned.heap, c.baseAttributes)
  IN  scratchAttributesOnHeap(
        written(base.heap, base.ref,
                modifiedCoefficients(base.heap[base.ref], newCoefficient,
                                     DOMAIN distribution)),
        [cloned.c EXCEPT !.baseAttributes = base.ref])

\* calcResults(character): the heap afterwards
calcResultsOnHeap(heap, c) ==
  LET withOne(valued) ==
        Then(coefficientOnHeap(valued, c, 1),
             LAMBDA next : coefficientOnHeap(next, c, 0))
      negative(valued) ==
        Then(negativeValuesOnHeap(valued, c, 1), withOne)
      positive(based) ==
        Then(positiveValuesOnHeap(based, c, 1), negative)
  IN  Then(cloneOnHeap(heap, c),
           LAMBDA baseline :
             Then(scratchAttributesOnHeap(baseline.heap, baseline.c), positive))


\* the engine and the heap during a testCharacter call, and the characters
\* insertCharacter has taken so far, each with its baseAttributes and
\* attributes as they were when calcResults was about to run
Machine(heap, engine) == [heap |-> heap, this |-> engine, accepted |-> << >>]

\* updateAttributesFast(character, skipValidation)
updateAttributesFastOnHeap(m, c, skipValidation) ==
  LET left(fast, made) ==
        [ m |-> [m EXCEPT !.heap = made.heap, !.this = withCache(m.this, fast)],
          c |-> made.c ]
  IN  Then(updateAttributesFast(settings, m.this.condiResultCache,
                                View(m.heap, c), skipValidation),
           LAMBDA fast : Then(attributesOnHeap(m.heap, c, fast.character),
                              LAMBDA made : left(fast, made)))

\* insertCharacter(character): the list is kept by the operators above
insertCharacterOnHeap(m, c) ==
  LET taken(engine, full) ==
        [ m |-> [ heap     |-> calcResultsOnHeap(full.heap, full.c),
                  this     |-> engine,
                  accepted |->
                    Append(m.accepted,
                           [ c              |-> full.c,
                             id             |-> m.this.uniqueIDCounter,
                             baseAttributes |-> full.heap[full.c.baseAttributes],
                             attributes     |-> full.heap[full.c.attributes] ]) ],
          c |-> full.c ]
      from(engine) ==
        IF insertRejected(m.this, settings, View(m.heap, c))
        THEN [m |-> [m EXCEPT !.this = engine], c |-> c]
        ELSE Then(updateAttributesOnHeap(m.heap, c, FALSE),
                  LAMBDA full : taken(engine, full))
  IN  Then(insertCharacter(m.this, settings, View(m.heap, c)), from)

\* updateAttributesFast(character); insertCharacter(character)
fastThenInsertOnHeap(m, c) ==
  Then(updateAttributesFastOnHeap(m, c, FALSE),
       LAMBDA fast : insertCharacterOnHeap(fast.m, fast.c).m)

applyInfusionsPrimaryOnHeap(m, c) ==
  fastThenInsertOnHeap(
    [m EXCEPT !.heap = addBaseStatsOnHeap(@, c, settings.primaryInfusion,
                                          settings.primaryMaxInfusions * INFUSION_BONUS)],
    [c EXCEPT !.infusions = Put(EmptyObject, settings.primaryInfusion,
                                settings.primaryMaxInfusions)])

applyInfusionsFewOnHeap(m, c) ==
  fastThenInsertOnHeap(
    [m EXCEPT !.heap =
       addBaseStatsOnHeap(
         addBaseStatsOnHeap(@, c, settings.primaryInfusion,
                            settings.primaryMaxInfusions * INFUSION_BONUS),
         c, settings.secondaryInfusion,
         settings.secondaryMaxInfusions * INFUSION_BONUS)],
    withInfusions(settings, c, settings.primaryMaxInfusions,
                  settings.secondaryMaxInfusions))

\* a clone of the character with the given infusions added, after
\* updateAttributesFast
splitOnHeap(m, c, primaryCount, secondaryCount, skipValidation) ==
  LET infused(temp) ==
        [m EXCEPT !.heap =
           addBaseStatsOnHeap(
             addBaseStatsOnHeap(temp.heap, temp.c, settings.primaryInfusion,
                                primaryCount * INFUSION_BONUS),
             temp.c, settings.secondaryInfusion, secondaryCount * INFUSION_BONUS)]
  IN  Then(cloneOnHeap(m.heap, c),
           LAMBDA temp :
             Then(infused(temp),
                  LAMBDA next : updateAttributesFastOnHeap(next, temp.c,
                                                           skipValidation)))

\* !this.worstScore || this.testInfusionUsefulness(character)
infusionGuardOnHeap(m, c) ==
  LET compared(temp) ==
        [ m      |-> temp.m,
          result |-> RGt[Score(View(temp.m.heap, temp.c)), m.this.worstScore] ]
  IN  IF ~Truthy[m.this.worstScore]
      THEN [m |-> m, result |-> TRUE]
      ELSE Then(splitOnHeap(m, c, settings.maxInfusions, settings.maxInfusions, TRUE),
                compared)

\* the while loop of applyInfusionsSecondary
RECURSIVE secondaryLoopOnHeap(_, _, _, _, _)
secondaryLoopOnHeap(m, c, previousResult, primaryCount, secondaryCount) ==
  IF secondaryCount > settings.secondaryMaxInfusions THEN m
  ELSE LET after(put) ==
             secondaryLoopOnHeap(put.m, c, Score(View(put.m.heap, put.c)),
                                 primaryCount - 1, secondaryCount + 1)
           body(temp) ==
             IF secondaryTake(settings, View(temp.m.heap, temp.c), previousResult)
             THEN Then(insertCharacterOnHeap(
                         temp.m, withInfusions(settings, temp.c, primaryCount,
                                               secondaryCount)),
                       after)
             ELSE secondaryLoopOnHeap(temp.m, c, previousResult,
                                      primaryCount - 1, secondaryCount + 1)
       IN  Then(splitOnHeap(m, c, primaryCount, secondaryCount, FALSE), body)

\* the while loop of applyInfusionsSecondaryNoDuplicates; best is a sequence
\* of at most one character
RECURSIVE noDuplicatesLoopOnHeap(_, _, _, _, _)
noDuplicatesLoopOnHeap(m, c, best, primaryCount, secondaryCount) ==
  IF secondaryCount > settings.secondaryMaxInfusions
  THEN IF Len(best) > 0 THEN insertCharacterOnHeap(m, best[1]).m ELSE m
  ELSE LET taken(temp) ==
             /\ temp.c.valid
             /\ \/ Len(best) = 0
                \/ RGt[characterLT(View(temp.m.heap, best[1]),
                                   View(temp.m.heap, temp.c), settings.rankby),
                       Num(0)]
           chose(temp) ==
             IF taken(temp)
             THEN << withInfusions(settings, temp.c, primaryCount, secondaryCount) >>
             ELSE best
           body(temp) ==
             Then(chose(temp),
                  LAMBDA next : noDuplicatesLoopOnHeap(temp.m, c, next,
                                                       primaryCount - 1,
                                                       secondaryCount + 1))
       IN  Then(splitOnHeap(m, c, primaryCount, secondaryCount, FALSE), body)

\* the applier the constructor bound, from the built character on
applyInfusionsOnHeap(m, c) ==
  LET first == settings.maxInfusions - settings.primaryMaxInfusions
      secondary(guard) ==
        IF guard.result
        THEN secondaryLoopOnHeap(guard.m, c, undefined,
                                 settings.primaryMaxInfusions, first)
        ELSE guard.m
      noDuplicates(guard) ==
        IF guard.result
        THEN noDuplicatesLoopOnHeap(guard.m, c, << >>,
                                    settings.primaryMaxInfusions, first)
        ELSE guard.m
  IN  CASE applyInfusionsFunction = "applyInfusionsNone" -> fastThenInsertOnHeap(m, c)
        [] applyInfusionsFunction = "applyInfusionsPrimary" ->
             applyInfusionsPrimaryOnHeap(m, c)
        [] applyInfusionsFunction = "applyInfusionsFew" -> applyInfusionsFewOnHeap(m, c)
        [] applyInfusionsFunction = "applyInfusionsSecondary" ->
             Then(infusionGuardOnHeap(m, c), secondary)
        [] applyInfusionsFunction = "applyInfusionsSecondaryNoDuplicates" ->
             Then(infusionGuardOnHeap(m, c), noDuplicates)

\* testCharacter(gear, gearStats) on the engine as it stands
testCharacterOnHeap(gear, gearStats) ==
  Then(builtOnHeap(Heap, gear, gearStats),
       LAMBDA built : applyInfusionsOnHeap(Machine(built.heap, this), built.c))

\* the testCharacter call of the step
CallOnHeap ==
  testCharacterOnHeap(tested'[Len(tested')].gear, tested'[Len(tested')].gearStats)

\* the base value of each stat of a character of the given gear and infusions:
\* the settings base, the gear stats and 5 for every infusion
OwnBase(c) ==
  [stat \in DOMAIN settings.baseAttributes \cup DOMAIN c.gearStats
              \cup DOMAIN c.infusions |->
     LET base  == IF stat \in DOMAIN c.gearStats
                  THEN RAdd[Get(settings.baseAttributes, stat), c.gearStats[stat]]
                  ELSE settings.baseAttributes[stat]
     IN  IF stat \in DOMAIN c.infusions /\ c.infusions[stat] # 0
         THEN RAdd[OrZero[base], Num(5 * c.infusions[stat])]
         ELSE base]

\* C33: a search never modifies settings.baseAttributes: testCharacter, the
\* appliers, testInfusionUsefulness and calcResults write to copies, so the
\* base attributes of each candidate are the settings base plus its own gear
\* stats plus its own infusions whatever was evaluated before, and calcResults
\* leaves the accepted character's baseAttributes and attributes as they were
C33_BaseUntouched ==
  [][tested' # tested
       => \A m \in {CallOnHeap} :
              /\ m.heap[SettingsBase] = settings.baseAttributes
              /\ m.this.list = list'
              /\ m.this.worstScore = worstScore'
              /\ m.this.inserted = inserted'
              /\ \A k \in 1..Len(inserted') :
                   inserted'[k].baseAttributes = OwnBase(inserted'[k])
              /\ \A k \in 1..Len(m.accepted) :
                   LET a == m.accepted[k]
                   IN  /\ a.baseAttributes = OwnBase(a.c)
                       /\ m.heap[a.c.baseAttributes] = a.baseAttributes
                       /\ m.heap[a.c.attributes] = a.attributes
                       /\ \A i \in 1..Len(list') :
                            list'[i].id = a.id
                              => /\ list'[i].baseAttributes = a.baseAttributes
                                 /\ list'[i].attributes = a.attributes]_vars

\* C33 is met: in a Secondary search a gear was tested after others, several
\* of its splits were evaluated and more than one was taken into the list,
\* each with the settings base, its gear and its own infusions
C33_Witness ==
  /\ settings.infusionMode = "Secondary"
  /\ Len(tested) >= 3
  /\ Len(evaluated) >= 2
  /\ Len(inserted) >= 2
  /\ Cardinality({ i \in 1..Len(list) :
                     /\ list[i].gear = tested[Len(tested)].gear
                     /\ list[i].baseAttributes = OwnBase(list[i]) }) >= 2
  /\ \E i, j \in 1..Len(list) : list[i].infusions # list[j].infusions


(***************************************************************************)
(* The fast path against the full path                                     *)
(***************************************************************************)
\* the k-th insertCharacter call of the step passes the early return
PassedGate(k) == ~insertRejected(BeforeCall(k), settings, inserted'[k])

\* what the settings bundle guarantees of relevantConditions: it names every
\* condition that has a non-zero coefficient
RelevantCovered ==
  \A i \in 1..Len(CONDITION) :
    Truthy[OrZero[Get(settings.baseAttributes, CONDITION[i] \o " Coefficient")]]
      => \E j \in 1..Len(settings.relevantConditions) :
           settings.relevantConditions[j] = CONDITION[i]

====
